---- MODULE Spec2Model ----
(***************************************************************************)
(* A model of cchistory.  The text-transformation pipeline of             *)
(* src/src/lib/MarkdownExporter.ts: cleanMetadata, formatCommandTags,     *)
(* formatContentPart, formatContent, formatMessage, convertToMarkdown and *)
(* export; the CLI of the same file; sanitizeOutputPath of                *)
(* src/src/utils/pathSanitizer.ts; and ConfigManager.load and             *)
(* ConversationManager.loadConversationContent of                         *)
(* src/src/lib/ConfigManager.ts.                                          *)
(*                                                                         *)
(* A JavaScript string is a sequence of atoms.  An atom is a TLA+ string   *)
(* that stands for a fixed piece of text: one character ("a", " ", "\n"),  *)
(* or a literal that no regular expression of the program can match in    *)
(* part within the inputs enumerated below (a tag name such as            *)
(* "<system-reminder", a label the program itself emits).  The back-tick   *)
(* and the emoji cannot be written in a TLA+ string and get names.         *)
(***************************************************************************)
EXTENDS Integers, Sequences, FiniteSets, TLC

VARIABLES
    pc,       \* "ready" before the call, "returned" after it, "threw" when it raised
              \* or rejected; in between, the statement the method has reached
    fn,       \* the method the behaviour calls
    arg,      \* its argument
    ret,      \* its return value
    prev,     \* the return value of the call before (re-application)
    calls,    \* how many times the method was applied
    maxResultLength,  \* config.maxResultLength
    local,    \* the local variables of the running method
    fs,       \* the file system: directories, symbolic links, files
    io        \* the calls made to the outside so far, in order

vars == <<pc, fn, arg, ret, prev, calls, maxResultLength, local, fs, io>>

----------------------------------------------------------------------------
(* Atoms *)

NL == "\n"
SP == " "
TAB == "\t"
BT == "[backtick]"

WhiteSpace == {SP, NL, TAB}
Digits == {"0", "1", "2", "3", "4", "5", "6", "7", "8", "9"}
Letters == {"a", "b", "x", "y", "s", "M", "A", "D", "R", "C", "U"}
\* atoms spelled with letters only ([a-z] under the i flag)
AlphaAtoms == Letters \cup {"json", "null", "more", "lines", "file", "changed", "Conversation"}
\* atoms spelled with word characters only (\w)
WordAtoms == AlphaAtoms \cup Digits \cup {"_"}
\* atoms that contain the character '<' (and no '>')
LtAtoms == {"<user-prompt-submit-hook", "</user-prompt-submit-hook",
            "<system-reminder", "</system-reminder",
            "<command-name", "</command-name",
            "<command-message", "</command-message",
            "<command-args", "</command-args",
            "<local-command-stderr", "</local-command-stderr",
            "<local-command-stdout", "</local-command-stdout",
            "<details", "</details", "<summary", "</summary",
            "<strong", "</strong"}

\* String.prototype.length, in UTF-16 code units (an emoji takes two)
AtomLen(a) ==
    CASE a \in {"[bulb]", "[info]", "[memo]", "[warning]", "[outbox]",
                 "[user]", "[robot]", "[thinking]", "[wrench]",
                 "[clipboard]"} -> 2
      [] a \in {"more", "file", "json", "null", "User", "Tool", "Date"} -> 4
      [] a \in {"lines"} -> 5
      [] a \in {"Claude"} -> 6
      [] a \in {"<strong", "(empty)", "changed", "Session", "Unknown",
                 "Invalid"} -> 7
      [] a \in {"<details", "<summary", "</strong", "10:00:00"} -> 8
      [] a \in {"</details", "</summary", "Assistant"} -> 9
      [] a \in {"**Status**", "**Output**", "2024-01-01"} -> 10
      [] a \in {"**Command**", "(truncated)", "**Started**", "**Version**",
                 "Information"} -> 11
      [] a \in {"**Tool Use**", "**Thinking**", "Conversation"} -> 12
      [] a \in {"<command-name", "<command-args", "**Arguments**"} -> 13
      [] a \in {"</command-name", "</command-args", "(empty result)",
                 "**Session ID**"} -> 14
      [] a \in {"**Tool Result**"} -> 15
      [] a \in {"<system-reminder", "<command-message",
                 "**Error Output**"} -> 16
      [] a \in {"</system-reminder", "</command-message"} -> 17
      [] a \in {"(empty code block)"} -> 18
      [] a \in {"2024-01-01T10:00:00Z"} -> 20
      [] a \in {"<local-command-stderr", "<local-command-stdout",
                 "**Working Directory**"} -> 21
      [] a \in {"</local-command-stderr", "</local-command-stdout"} -> 22
      [] a \in {"<user-prompt-submit-hook"} -> 24
      [] a \in {"</user-prompt-submit-hook"} -> 25
      [] a \in {
                 "This session is being continued from a previous conversation"} -> 60
      [] OTHER -> 1

----------------------------------------------------------------------------
(* Strings *)

\* The statements of a method run one after the other: result, once the steps
\* (the intermediate values, in the order the method computes them) are known.
sequentially(steps, result) == IF steps = steps THEN result ELSE result

Min(a, b) == IF a < b THEN a ELSE b
Max(a, b) == IF a > b THEN a ELSE b

setMin(S) == CHOOSE i \in S : \A j \in S : i <= j
setMax(S) == CHOOSE i \in S : \A j \in S : j <= i

\* Recursion over a list halves the range, so that its depth stays
\* logarithmic in the length of the list.
RECURSIVE flattenRange(_, _, _)
flattenRange(ss, lo, hi) ==
    IF lo > hi THEN <<>>
    ELSE IF lo = hi THEN ss[lo]
    ELSE flattenRange(ss, lo, (lo + hi) \div 2) \o flattenRange(ss, (lo + hi) \div 2 + 1, hi)
Flatten(ss) == flattenRange(ss, 1, Len(ss))

\* Array.prototype.join
RECURSIVE joinRange(_, _, _, _)
joinRange(ls, sep, lo, hi) ==
    IF lo > hi THEN <<>>
    ELSE IF lo = hi THEN ls[lo]
    ELSE joinRange(ls, sep, lo, (lo + hi) \div 2) \o sep
         \o joinRange(ls, sep, (lo + hi) \div 2 + 1, hi)
join(ls, sep) == joinRange(ls, sep, 1, Len(ls))

\* the first and the last position in lo..hi of an atom of S (want) or not of S
\* (~want); 0 if there is none
firstAt(S, want, s, lo, hi) ==
    LET ps == {i \in lo..hi : (s[i] \in S) = want}
    IN IF ps = {} THEN 0 ELSE setMin(ps)

lastAt(S, want, s, lo, hi) ==
    LET ps == {hi - i : i \in {j \in lo..hi : (s[j] \in S) = want}}
    IN IF ps = {} THEN 0 ELSE hi - setMin(ps)

\* the j-th smallest element of a set of numbers
nth(B, j) == CHOOSE b \in B : Cardinality({c \in B : c <= b}) = j

\* the pieces of s between the positions B, which hold 0, Len(s) + 1 and the
\* positions of the separators
piecesBetween(s, B) ==
    [j \in 1..(Cardinality(B) - 1) |-> SubSeq(s, nth(B, j) + 1, nth(B, j + 1) - 1)]

\* String.prototype.split('\n'): the pieces between the newlines
split(s) == piecesBetween(s, {0, Len(s) + 1} \cup {i \in 1..Len(s) : s[i] = NL})

\* String.prototype.trim
trim(s) ==
    LET first == firstAt(WhiteSpace, FALSE, s, 1, Len(s))
    IN IF first = 0 THEN <<>>
       ELSE SubSeq(s, first, lastAt(WhiteSpace, FALSE, s, 1, Len(s)))

\* String.prototype.endsWith / startsWith
endsWith(s, t) == Len(s) >= Len(t) /\ SubSeq(s, Len(s) - Len(t) + 1, Len(s)) = t
startsWith(s, t) == Len(s) >= Len(t) /\ SubSeq(s, 1, Len(t)) = t

----------------------------------------------------------------------------
(* Regular expressions.  A pattern is a sequence of items, each a literal,  *)
(* a character class with a quantifier, an anchor or a lookahead; the       *)
(* matcher takes the alternative a backtracking engine finds first (greedy: *)
(* the longest repetition that lets the rest match, lazy: the shortest), as *)
(* RegExp.prototype.exec does.                                              *)

In(S)    == [k |-> "in", set |-> S, min |-> 1, max |-> 1, greedy |-> TRUE]
NotIn(S) == [k |-> "notin", set |-> S, min |-> 1, max |-> 1, greedy |-> TRUE]
AnyChar  == NotIn({})                                   \* [\s\S]
Star(it) == [it EXCEPT !.min = 0, !.max = -1]           \* x*
Plus(it) == [it EXCEPT !.min = 1, !.max = -1]           \* x+
Lazy(it) == [it EXCEPT !.greedy = FALSE]                \* x*?  x+?
Between(it, lo, hi) == [it EXCEPT !.min = lo, !.max = hi]   \* x{lo,hi}
Lit(t)   == <<[k |-> "lit", lit |-> t]>>                \* a literal string
Bol      == [k |-> "bol"]                               \* ^ under the m flag
Eol      == [k |-> "eol"]                               \* $ under the m flag
End      == [k |-> "end"]                               \* $ without the m flag
BolOrNl  == [k |-> "bolnl"]                             \* (^|\n) under the m flag
Ahead(t) == [k |-> "ahead", lit |-> t]                  \* (?=t)

litAt(s, p, t) == p + Len(t) - 1 <= Len(s) /\ SubSeq(s, p, p + Len(t) - 1) = t

atBol(s, p) == p = 1 \/ s[p - 1] = NL
atEol(s, p) == p = Len(s) + 1 \/ s[p] = NL

\* how many atoms from position p on are in the class of it, at most cap (cap < 0:
\* no limit)
runLen(it, s, p, cap) ==
    LET hi == IF cap < 0 THEN Len(s) ELSE Min(Len(s), p + cap - 1)
        stop == firstAt(it.set, it.k # "in", s, p, hi)
    IN IF hi < p THEN 0
       ELSE IF stop = 0 THEN hi - p + 1
       ELSE stop - p

cons(p, r) == IF r = <<>> THEN <<>> ELSE <<p>> \o r

\* the outcome of a quantified item at p, given for each count c of repetitions
\* the match <<c, rest>> of the rest of the pattern: the greatest count (greedy)
\* or the least (lazy) whose rest matches
pick(p, tries, greedy) ==
    IF \A t \in tries : t[2] = <<>> THEN <<>>
    ELSE <<p>> \o (CHOOSE t \in tries :
                      /\ t[2] # <<>>
                      /\ \A u \in tries : u[2] # <<>> =>
                            IF greedy THEN u[1] <= t[1] ELSE t[1] <= u[1])[2]

\* match(re, k, s, p): items k.. of re matched at position p of s: the start
\* position of each item followed by the position after the match, or <<>>.
RECURSIVE match(_, _, _, _)
match(re, k, s, p) ==
    IF k > Len(re) THEN <<p>>
    ELSE
      CASE re[k].k = "lit" ->
             IF litAt(s, p, re[k].lit) THEN cons(p, match(re, k + 1, s, p + Len(re[k].lit)))
             ELSE <<>>
        [] re[k].k \in {"bol", "eol", "end", "ahead"} ->
             IF CASE re[k].k = "bol" -> atBol(s, p)
                  [] re[k].k = "eol" -> atEol(s, p)
                  [] re[k].k = "end" -> p = Len(s) + 1
                  [] OTHER -> litAt(s, p, re[k].lit)
             THEN cons(p, match(re, k + 1, s, p)) ELSE <<>>
        [] re[k].k = "bolnl" ->
             IF atBol(s, p) /\ match(re, k + 1, s, p) # <<>>
             THEN cons(p, match(re, k + 1, s, p))
             ELSE IF p <= Len(s) /\ s[p] = NL THEN cons(p, match(re, k + 1, s, p + 1))
             ELSE <<>>
        [] OTHER ->
             pick(p, {<<c, match(re, k + 1, s, p + c)>> :
                        c \in re[k].min..runLen(re[k], s, p, re[k].max)}, re[k].greedy)

matchEnd(v) == v[Len(v)]
\* the text of items i..j of a match
group(s, v, i, j) == SubSeq(s, v[i], v[j + 1] - 1)

\* RegExp.prototype.test
test(re, s) == \E p \in 1..(Len(s) + 1) : match(re, 1, s, p) # <<>>

\* the matches among hits (pairs of a start position and the match there) that
\* a global (g) pattern finds from position p on: left to right, not overlapping
RECURSIVE selectFrom(_, _)
selectFrom(hits, p) ==
    LET later == {h \in hits : h[1] >= p}
        v == (CHOOSE h \in later : h[1] = setMin({g[1] : g \in later}))[2]
    IN IF later = {} THEN <<>>
       ELSE <<v>> \o selectFrom(hits, IF matchEnd(v) = v[1] THEN v[1] + 1 ELSE matchEnd(v))

\* the matches of a global (g) pattern from position p on
findAll(re, s, p) ==
    sequentially(<<s>>,
        selectFrom({t \in {<<q, match(re, 1, s, q)>> : q \in 1..(Len(s) + 1)} : t[2] # <<>>}, p))

\* String.prototype.replace(re, ...) given the matches and their replacements
splice(s, ms, reps, i, p) ==
    LET n == Len(ms)
        pieces == [j \in i..n |->
                      SubSeq(s, IF j = i THEN p ELSE matchEnd(ms[j - 1]), ms[j][1] - 1)
                      \o reps[j]]
    IN IF i > n THEN SubSeq(s, p, Len(s))
       ELSE sequentially(<<s, ms, reps, pieces>>,
                flattenRange(pieces, i, n) \o SubSeq(s, matchEnd(ms[n]), Len(s)))

----------------------------------------------------------------------------
(* cleanMetadata and formatCommandTags *)

GT == ">"
Quote == <<GT, SP>>                                   \* "> "
Fence == <<BT, BT, BT>>                               \* three back-ticks
Ellipsis == <<".", ".", ".">>

\* String(n) for n >= 0
RECURSIVE numToStr(_)
numToStr(n) ==
    LET d == <<"0", "1", "2", "3", "4", "5", "6", "7", "8", "9">>[(n % 10) + 1]
    IN IF n < 10 THEN <<d>> ELSE numToStr(n \div 10) \o <<d>>

PreviewLines == 5
LongOutputLines == 10

HookPairRe ==
    Lit(<<"<user-prompt-submit-hook">>) \o <<Star(NotIn({GT}))>> \o Lit(<<GT>>)
    \o <<Lazy(Star(AnyChar))>> \o Lit(<<"</user-prompt-submit-hook", GT>>)

ReminderPairRe ==
    Lit(<<"<system-reminder">>) \o <<Star(NotIn({GT}))>> \o Lit(<<GT>>)
    \o <<Lazy(Star(AnyChar))>> \o Lit(<<"</system-reminder", GT>>)

HookStandaloneRe ==
    Lit(<<"<user-prompt-submit-hook">>) \o <<Star(NotIn({GT}))>> \o Lit(<<"/", GT>>)

CommandNameRe ==
    Lit(<<"<command-name", GT>>) \o <<Plus(NotIn(LtAtoms))>> \o Lit(<<"</command-name", GT>>)

CommandMessageRe ==
    Lit(<<"<command-message", GT>>) \o <<Plus(NotIn(LtAtoms))>> \o Lit(<<"</command-message", GT>>)

CommandArgsRe ==
    Lit(<<"<command-args", GT>>) \o <<Star(NotIn(LtAtoms))>> \o Lit(<<"</command-args", GT>>)

\* /(^|\n)(> [^\n]+)\s*\n+\s*(?=> )/gm
BlockquoteGapRe ==
    <<BolOrNl>> \o Lit(Quote)
    \o <<Plus(NotIn({NL})), Star(In(WhiteSpace)), Plus(In({NL})), Star(In(WhiteSpace)),
         Ahead(Quote)>>

\* /(^|\n)(> [^\n]+)$/gm
BlockquoteEndRe == <<BolOrNl>> \o Lit(Quote) \o <<Plus(NotIn({NL})), Eol>>

StderrRe ==
    Lit(<<"<local-command-stderr", GT>>) \o <<Lazy(Star(AnyChar))>>
    \o Lit(<<"</local-command-stderr", GT>>)

StdoutRe ==
    Lit(<<"<local-command-stdout", GT>>) \o <<Lazy(Star(AnyChar))>>
    \o Lit(<<"</local-command-stdout", GT>>)

ErrorOutputLabel == <<"[warning]", SP, "**Error Output**", ":">>
OutputLabel == <<"[outbox]", SP, "**Output**", ":">>

\* the lines of a non-blank command output, quoted (lines 149-164 and 172-186)
quoteCommandOutput(label, lines) ==
    IF Len(lines) > LongOutputLines
    THEN Flatten(<< <<NL>>, Quote, label, <<SP>>, Fence, <<NL>>,
                    join([i \in 1..PreviewLines |-> Quote \o lines[i]], <<NL>>), <<NL>>,
                    Quote, Ellipsis, <<NL>>,
                    Quote, <<"(">>, numToStr(Len(lines) - PreviewLines),
                    <<SP, "more", SP, "lines", ")">>, Fence, <<NL>> >>)
    ELSE Flatten(<< <<NL>>, Quote, label, <<SP>>, Fence, <<NL>>,
                    join([i \in 1..Len(lines) |->
                            IF i = Len(lines) THEN Quote \o lines[i] \o Fence
                            ELSE Quote \o lines[i]], <<NL>>), <<NL>> >>)

\* a variant of formatCommandOutput that treats a blank output as one empty line
formatBlankAsLine(label, output) == quoteCommandOutput(label, split(trim(output)))

\* the callback of the local-command-stderr and local-command-stdout replacements
formatCommandOutput(label, output) ==
    IF sequentially(<<output>>, trim(output) = <<>>)
    THEN Flatten(<< <<NL>>, Quote, label, <<SP, "(empty)", NL>> >>)
    ELSE quoteCommandOutput(label, split(trim(output)))

\* the replacement of match m of text t: the second argument of each replace
\* call of cleanMetadata and formatCommandTags, named after what it replaces
commandReplacement(callback, t, m) ==
    CASE callback = "command-name" ->
           Flatten(<< Quote, <<"[bulb]", SP, "**Command**", ":", SP, BT>>,
                      group(t, m, 2, 2), <<BT>> >>)
      [] callback = "command-message" ->
           Flatten(<< Quote, <<"[info]", SP, "**Status**", ":", SP>>, group(t, m, 2, 2) >>)
      [] callback = "command-args" ->
           IF trim(group(t, m, 2, 2)) # <<>>
           THEN Flatten(<< Quote, <<"[memo]", SP, "**Arguments**", ":", SP, BT>>,
                           group(t, m, 2, 2), <<BT>> >>)
           ELSE <<>>
      [] callback \in {"blockquote-gap", "blockquote-end"} ->
           Flatten(<< group(t, m, 1, 1), group(t, m, 2, 3),
                      IF callback = "blockquote-gap" THEN <<NL>> ELSE <<SP, SP>> >>)
      [] callback \in {"local-command-stderr", "local-command-stdout"} ->
           formatCommandOutput(IF callback = "local-command-stderr" THEN ErrorOutputLabel
                               ELSE OutputLabel, group(t, m, 2, 2))
      [] callback = "newlines" -> <<NL, NL>>
      [] OTHER -> <<>>

----------------------------------------------------------------------------
(* normalizeCodeBlockIndentation, formatEmptyCodeBlocks and the other text  *)
(* passes                                                                   *)

NonSpace == NotIn(WhiteSpace)                          \* \S
Space == In(WhiteSpace)                                \* \s
GitStatusChars == {"M", "A", "D", "R", "C", "U", "?", "!"}

\* /^([MADRCU?!]+|\s[MADRCU?!]+)\s+\S/ and /^(\?\?|\s\?\?)\s+\S/
GitStatusRes ==
    { <<Plus(In(GitStatusChars)), Plus(Space), NonSpace>>,
      <<Space, Plus(In(GitStatusChars)), Plus(Space), NonSpace>>,
      Lit(<<"?", "?">>) \o <<Plus(Space), NonSpace>>,
      <<Space>> \o Lit(<<"?", "?">>) \o <<Plus(Space), NonSpace>> }

\* /^\s*\S+\.\S+\s+\|\s+\d+/ and /^\s*\d+\s+files?\s+changed/
GitDiffStatRes ==
    { <<Star(Space), Plus(NonSpace), In({"."}), Plus(NonSpace), Plus(Space),
        In({"|"}), Plus(Space), Plus(In(Digits))>>,
      <<Star(Space), Plus(In(Digits)), Plus(Space), In({"file"}),
        Between(In({"s"}), 0, 1), Plus(Space), In({"changed"})>> }

\* some line matches, at its start, one of the patterns
someLineMatches(lines, res) ==
    \E i \in 1..Len(lines) : \E re \in res : match(re, 1, lines[i], 1) # <<>>

\* the branch shared by the git-status and the diff-stat case
padUnindented(content, lines) ==
    IF /\ \E i \in 1..Len(lines) : startsWith(lines[i], <<SP>>) /\ trim(lines[i]) # <<>>
       /\ \E i \in 1..Len(lines) : ~startsWith(lines[i], <<SP>>) /\ trim(lines[i]) # <<>>
    THEN join([i \in 1..Len(lines) |->
                 IF trim(lines[i]) # <<>> /\ ~startsWith(lines[i], <<SP>>)
                 THEN <<SP>> \o lines[i] ELSE lines[i]], <<NL>>)
    ELSE content

leadingSpaces(line) == runLen(Space, line, 1, -1)

\* lines 245-260: the common indentation of the non-blank lines is removed
removeIndent(content, lines, minIndent) ==
    IF minIndent > 0
    THEN join([i \in 1..Len(lines) |->
                 IF trim(lines[i]) = <<>> THEN lines[i]
                 ELSE SubSeq(lines[i], minIndent + 1, Len(lines[i]))], <<NL>>)
    ELSE content

normalizeLines(content, lines) ==
    IF sequentially(<<content, lines>>, someLineMatches(lines, GitStatusRes \cup GitDiffStatRes))
    THEN padUnindented(content, lines)
    ELSE IF \A i \in 1..Len(lines) : trim(lines[i]) = <<>> THEN content
    ELSE removeIndent(content, lines,
            setMin({leadingSpaces(lines[i]) :
                      i \in {j \in 1..Len(lines) : trim(lines[j]) # <<>>}}))

normalizeCodeBlockIndentation(content) == normalizeLines(content, split(content))

EmptyCodeBlock == <<"(empty code block)">>

\* /```(\w*)\n\s*\n```/g
EmptyBlockRe ==
    Lit(Fence) \o <<Star(In(WordAtoms))>> \o Lit(<<NL>>) \o <<Star(Space)>>
    \o Lit(<<NL>>) \o Lit(Fence)

\* /```(\w*)\n(\s+)\n```/g
BlankBlockRe ==
    Lit(Fence) \o <<Star(In(WordAtoms))>> \o Lit(<<NL>>) \o <<Plus(Space)>>
    \o Lit(<<NL>>) \o Lit(Fence)

\* /```(\w*)\n([\s\S]*?)```/g
CodeBlockRe ==
    Lit(Fence) \o <<Star(In(WordAtoms))>> \o Lit(<<NL>>) \o <<Lazy(Star(AnyChar))>>
    \o Lit(Fence)

\* the replacement of match m of text t in formatEmptyCodeBlocks and
\* adjustHeadingLevels
blockReplacement(callback, t, m) ==
    CASE callback \in {"empty", "blank", "code"} ->
           IF \/ callback = "empty"
              \/ callback = "blank" /\ trim(group(t, m, 4, 4)) = <<>>
           THEN Flatten(<< Fence, group(t, m, 2, 2), <<NL>>, EmptyCodeBlock, <<NL>>, Fence >>)
           ELSE IF callback = "blank" THEN group(t, m, 1, 6)
           ELSE Flatten(<< Fence, group(t, m, 2, 2), <<NL>>,
                           IF trim(group(t, m, 4, 4)) # <<>>
                           THEN normalizeCodeBlockIndentation(group(t, m, 4, 4))
                           ELSE group(t, m, 4, 4),
                           Fence >>)
      [] callback = "heading" ->
           [j \in 1..(Len(group(t, m, 2, 2)) + 3) |-> "#"] \o <<SP>>

\* the callback of a replace call, by its name
replacement(callback, t, m) ==
    IF callback \in {"empty", "blank", "code", "heading"}
    THEN blockReplacement(callback, t, m)
    ELSE commandReplacement(callback, t, m)

\* String.prototype.replace(re, callback) for a global pattern, given the matches
replaceMatches(s, ms, callback) ==
    sequentially(<<s, ms>>,
        splice(s, ms, [i \in 1..Len(ms) |-> replacement(callback, s, ms[i])], 1, 1))

replace(re, s, callback) == replaceMatches(s, findAll(re, s, 1), callback)

\* the replace calls of a method one after the other; a pass is a pattern and the
\* name of its callback
RECURSIVE replaceEach(_, _, _)
replaceEach(passes, i, text) ==
    IF sequentially(<<text>>, i > Len(passes)) THEN text
    ELSE replaceEach(passes, i + 1, replace(passes[i][1], text, passes[i][2]))

\* lines 118-190: the replacements in the order of the code
formatCommandTags(text) ==
    replaceEach(<< <<CommandNameRe, "command-name">>,
                   <<CommandMessageRe, "command-message">>,
                   <<CommandArgsRe, "command-args">>,
                   <<BlockquoteGapRe, "blockquote-gap">>,
                   <<BlockquoteEndRe, "blockquote-end">>,
                   <<StderrRe, "local-command-stderr">>,
                   <<StdoutRe, "local-command-stdout">> >>, 1, text)

\* a variant of ManyNewlinesRe that leaves a run of three newlines: /\n{4,}/g
FourNewlinesRe == <<[Plus(In({NL})) EXCEPT !.min = 4]>>

\* /\n{3,}/g
ManyNewlinesRe == <<[Plus(In({NL})) EXCEPT !.min = 3]>>

\* lines 99-116: the three removals, the command tags, the newline collapse and
\* the trim
cleanMetadata(text) ==
    trim(replace(ManyNewlinesRe,
           formatCommandTags(
             replaceEach(<< <<HookPairRe, "remove">>,
                            <<ReminderPairRe, "remove">>,
                            <<HookStandaloneRe, "remove">> >>, 1, text)),
           "newlines"))

\* lines 265-292: the three replacements in the order of the code
formatEmptyCodeBlocks(text) ==
    replaceEach(<< <<EmptyBlockRe, "empty">>,
                   <<BlankBlockRe, "blank">>,
                   <<CodeBlockRe, "code">> >>, 1, text)

Arrow == "[arrow]"

\* /^\s*\d+[→\t](.*)$/ on each line
CatLineRe == <<Star(Space), Plus(In(Digits)), In({Arrow, TAB}), Star(NotIn({NL})), End>>

\* the callback of the map: the text after the line number, or the line
withoutNumber(line, v) == IF v # <<>> THEN group(line, v, 4, 4) ELSE line

removeNumbers(lines) ==
    join([i \in 1..Len(lines) |-> withoutNumber(lines[i], match(CatLineRe, 1, lines[i], 1))],
         <<NL>>)

removeCatLineNumbers(text) == sequentially(<<text>>, removeNumbers(split(text)))

\* /^(#{1,3})\s/gm
HeadingRe == <<Bol, Between(In({"#"}), 1, 3), Space>>

adjustHeadingLevels(text) == replace(HeadingRe, text, "heading")

Sentinel == <<"This session is being continued from a previous conversation">>

\* a variant of formatContinuationSummary that keeps the remainder as it is
formatSummaryUntrimmed(text) ==
    IF startsWith(text, Sentinel)
    THEN <<"<details", GT, NL, "<summary", GT, "[clipboard]", SP, "<strong", GT>>
         \o split(text)[1] \o <<"</strong", GT, "</summary", GT, NL, NL>>
         \o join(Tail(split(text)), <<NL>>) \o <<NL, "</details", GT>>
    ELSE text

formatContinuationSummary(text) ==
    LET lines == split(text)
        firstLine == lines[1]
        remainingContent == trim(join(Tail(lines), <<NL>>))
    IN IF sequentially(<<text>>, startsWith(text, Sentinel))
       THEN <<"<details", GT, NL, "<summary", GT, "[clipboard]", SP, "<strong", GT>>
            \o firstLine \o <<"</strong", GT, "</summary", GT, NL, NL>>
            \o remainingContent \o <<NL, "</details", GT>>
       ELSE text

----------------------------------------------------------------------------
(* JSON.stringify(value, null, 2) on the values JSON.parse produces.  A     *)
(* value is [t |-> "undefined"], [t |-> "null"], [t |-> "num", n |-> 1],    *)
(* [t |-> "str", s |-> atoms], [t |-> "arr", el |-> values] or              *)
(* [t |-> "obj", kv |-> <<key atoms, value>> pairs].                         *)

DQ == "\""

\* the escapes of a JSON string
quoteJson(str) ==
    <<DQ>> \o Flatten([i \in 1..Len(str) |->
                CASE str[i] = NL -> <<"\\", "n">>
                  [] str[i] = TAB -> <<"\\", "t">>
                  [] str[i] = DQ -> <<"\\", DQ>>
                  [] str[i] = "\\" -> <<"\\", "\\">>
                  [] OTHER -> <<str[i]>>]) \o <<DQ>>

indentOf(depth) == [i \in 1..(2 * depth) |-> SP]

RECURSIVE stringify(_, _)
stringify(v, depth) ==
    CASE v.t = "null" -> <<"null">>
      [] v.t = "num" -> numToStr(v.n)
      [] v.t = "str" -> quoteJson(v.s)
      [] v.t = "arr" ->
           IF v.el = <<>> THEN <<"[", "]">>
           ELSE <<"[", NL>>
                \o join([i \in 1..Len(v.el) |->
                            indentOf(depth + 1) \o stringify(v.el[i], depth + 1)], <<",", NL>>)
                \o <<NL>> \o indentOf(depth) \o <<"]">>
      [] v.t = "obj" ->
           IF v.kv = <<>> THEN <<"{", "}">>
           ELSE <<"{", NL>>
                \o join([i \in 1..Len(v.kv) |->
                            indentOf(depth + 1) \o quoteJson(v.kv[i][1]) \o <<":", SP>>
                            \o stringify(v.kv[i][2], depth + 1)], <<",", NL>>)
                \o <<NL>> \o indentOf(depth) \o <<"}">>

\* the truthiness of a parsed JSON value
truthyJson(v) ==
    CASE v.t = "undefined" -> FALSE
      [] v.t = "null" -> FALSE
      [] v.t = "num" -> v.n # 0
      [] v.t = "str" -> v.s # <<>>
      [] v.t = "bool" -> v.b
      [] OTHER -> TRUE

\* Object.keys(v).length
keyCount(v) ==
    CASE v.t = "obj" -> Len(v.kv)
      [] v.t = "arr" -> Len(v.el)
      [] v.t = "str" -> Len(v.s)
      [] OTHER -> 0

----------------------------------------------------------------------------
(* formatContentPart.  A content part is [type |-> "text", text |-> atoms], *)
(* [type |-> "tool_use", name |-> atoms, input |-> value],                   *)
(* [type |-> "tool_result", content |-> c] with c = [t |-> "string",         *)
(* s |-> atoms] or a JSON value, [type |-> "other"] for any other tag, or    *)
(* [type |-> "null"] for a null element of the content array.                *)

TruncationWindow == 100
Truncated == <<"(truncated)">>
TruncationMarker == Ellipsis \o <<SP>> \o Truncated          \* '... (truncated)'

\* the length of atoms lo..hi
RECURSIVE lengthRange(_, _, _)
lengthRange(s, lo, hi) ==
    IF lo > hi THEN 0
    ELSE IF lo = hi THEN AtomLen(s[lo])
    ELSE lengthRange(s, lo, (lo + hi) \div 2) + lengthRange(s, (lo + hi) \div 2 + 1, hi)
\* String.prototype.length
length(s) == lengthRange(s, 1, Len(s))

\* how many atoms of lo..hi lie wholly within the first end characters of them
RECURSIVE atomsWithin(_, _, _, _)
atomsWithin(s, lo, hi, end) ==
    IF lo > hi \/ end <= 0 THEN 0
    ELSE IF lo = hi THEN (IF AtomLen(s[lo]) <= end THEN 1 ELSE 0)
    ELSE LET mid == (lo + hi) \div 2
             left == lengthRange(s, lo, mid)
         IN IF left <= end THEN (mid - lo + 1) + atomsWithin(s, mid + 1, hi, end - left)
            ELSE atomsWithin(s, lo, mid, end)

\* String.prototype.substring(0, end): the atoms that lie before character end
substring(s, end) == SubSeq(s, 1, atomsWithin(s, 1, Len(s), end))

\* String.prototype.lastIndexOf('\n', position): a character index from 0, or -1
lastIndexOfNewline(s, position) ==
    lengthRange(s, 1, lastAt({NL}, TRUE, s, 1, atomsWithin(s, 1, Len(s), position + 1)) - 1)
    - (IF \A i \in 1..atomsWithin(s, 1, Len(s), position + 1) : s[i] # NL THEN 1 ELSE 0)

\* a variant of isTruncated that never finds the marker
neverTruncated(s) == FALSE

isTruncated(s) == endsWith(s, TruncationMarker) \/ endsWith(s, Truncated)

\* line 373: the last newline if it lies within the window before the limit
breakPoint(lastNewline, cutoff) ==
    IF lastNewline > cutoff - TruncationWindow THEN lastNewline ELSE cutoff

\* a variant of truncate that cuts without appending the marker
truncateUnmarked(normalized, cutoff) ==
    IF sequentially(<<normalized>>, ~isTruncated(normalized) /\ length(normalized) > cutoff)
    THEN substring(normalized, breakPoint(lastIndexOfNewline(normalized, cutoff), cutoff))
    ELSE normalized

\* lines 363-375: the cut at maxResultLength
truncate(normalized, cutoff) ==
    IF sequentially(<<normalized>>, ~isTruncated(normalized) /\ length(normalized) > cutoff)
    THEN substring(normalized, breakPoint(lastIndexOfNewline(normalized, cutoff), cutoff))
         \o <<NL>> \o TruncationMarker
    ELSE normalized

\* String.prototype.lastIndexOf('```'), as a position from 1 (0: none)
lastFence(s) ==
    IF \A p \in 1..Len(s) : ~litAt(s, p, Fence) THEN 0
    ELSE CHOOSE p \in 1..Len(s) :
            litAt(s, p, Fence) /\ \A q \in (p + 1)..Len(s) : ~litAt(s, q, Fence)

\* atoms whose last character is one of . ; } ] )
ClosingAtoms == {".", ";", "}", "]", ")", "(truncated)", "(empty)", "(empty result)",
                 "(empty code block)"}

EndsWith(S) == <<In(S), Star(Space), End>>
IncompletePatterns ==
    << EndsWith({","}), EndsWith({"("}), EndsWith({"["}), EndsWith({"{"}),
       EndsWith({"="}), EndsWith({"+"}),
       <<In({"-"}), In({GT}), Star(Space), End>>,
       EndsWith({"|"}),
       <<In({"&"}), In({"&"}), Star(Space), End>>,
       <<In({"|"}), In({"|"}), Star(Space), End>>,
       EndsWith({":"}),
       <<Plus(In(WordAtoms)), In({"."}), Star(In(WordAtoms)), End>> >>

\* lines 386-387: nothing, or a first line of letters only, follows the last fence
opensBlock(afterBacktick, firstLine) ==
    \/ afterBacktick = <<>>
    \/ firstLine # <<>> /\ \A i \in 1..Len(firstLine) : firstLine[i] \in AlphaAtoms

\* lines 395-416: the last line looks cut off
looksCutOff(lastLine) ==
    \/ \E i \in 1..Len(IncompletePatterns) : test(IncompletePatterns[i], trim(lastLine))
    \/ lastLine # <<>> /\ ~test(<<In(ClosingAtoms), End>>, trim(lastLine))

\* the last element of a list of lines
lastOf(lines) == lines[Len(lines)]

\* lines 383-391: an unclosed block is closed before a truncation marker
closeFence(finalContent, afterBacktick) ==
    IF opensBlock(afterBacktick, split(afterBacktick)[1])
    THEN finalContent \o <<NL>> \o Fence \o <<NL>> \o TruncationMarker
    ELSE finalContent

\* lines 377-421: fence repair and the incomplete-line heuristic
repairFences(finalContent) ==
    IF sequentially(<<finalContent>>, Len(findAll(Lit(Fence), finalContent, 1)) % 2 # 0)
    THEN closeFence(finalContent,
            trim(SubSeq(finalContent, lastFence(finalContent) + 3, Len(finalContent))))
    ELSE IF ~isTruncated(finalContent) /\ looksCutOff(lastOf(split(finalContent)))
    THEN finalContent \o <<NL>> \o TruncationMarker
    ELSE finalContent

ToolResultLabel == <<"[outbox]", SP, "**Tool Result**", ":">>
ToolUseLabel == <<"[wrench]", SP, "**Tool Use**", ":">>

\* lines 356-430: the result as a fenced block
fencedResult(result, cutoff) ==
    IF sequentially(<<result>>, trim(result) = <<>>)
    THEN <<NL>> \o ToolResultLabel \o <<SP, "(empty result)", NL>>
    ELSE join(<< <<>>, ToolResultLabel, Fence,
                 repairFences(truncate(normalizeCodeBlockIndentation(result), cutoff)),
                 Fence >>, <<NL>>)

\* lines 343-430; the content is a string or a value other than undefined
formatToolResult(item, cutoff) ==
    fencedResult(IF item.content.t = "string"
                 THEN removeCatLineNumbers(cleanMetadata(item.content.s))
                 ELSE stringify(item.content, 0), cutoff)

\* lines 326-328: JSON that does not end with a closing brace or bracket
markUnclosed(jsonContent) ==
    IF ~endsWith(jsonContent, <<"}">>) /\ ~endsWith(jsonContent, <<"]">>)
    THEN jsonContent \o <<NL>> \o TruncationMarker ELSE jsonContent

\* a variant of formatToolUse that serializes item.input || {} in every case
formatToolUseSerialized(item) ==
    join(<< <<>>,
            ToolUseLabel \o <<SP>>
            \o (IF item.name # <<>> THEN item.name ELSE <<"Unknown", SP, "Tool">>),
            Fence \o <<"json">>,
            markUnclosed(stringify(IF truthyJson(item.input) THEN item.input
                                   ELSE [t |-> "obj", kv |-> <<>>], 0)),
            Fence >>, <<NL>>)

\* lines 304-341
formatToolUse(item) ==
    join(<< <<>>,
            ToolUseLabel \o <<SP>>
            \o (IF item.name # <<>> THEN item.name ELSE <<"Unknown", SP, "Tool">>),
            Fence \o <<"json">>,
            IF sequentially(<<item>>, ~truthyJson(item.input) \/ keyCount(item.input) = 0)
            THEN <<"(empty)">>
            ELSE markUnclosed(stringify(item.input, 0)),
            Fence >>, <<NL>>)

\* the string pipeline of formatContentPart (text) and formatContent (string)
formatText(text) ==
    adjustHeadingLevels(formatEmptyCodeBlocks(formatContinuationSummary(cleanMetadata(text))))

\* item.type on a null element and result.trim() on an undefined result raise
\* a TypeError
formatContentPartThrows(item) ==
    \/ item.type = "null"
    \/ item.type = "tool_result" /\ item.content.t = "undefined"

formatContentPart(item) ==
    CASE sequentially(<<item>>, item.type = "text") -> IF item.text # <<>> THEN formatText(item.text) ELSE <<>>
      [] item.type = "tool_use" -> formatToolUse(item)
      [] item.type = "tool_result" -> formatToolResult(item, maxResultLength)
      [] OTHER -> <<>>

----------------------------------------------------------------------------
(* formatContent, formatMessage, convertToMarkdown.  A content is           *)
(* [t |-> "string", s |-> atoms], [t |-> "array", parts |-> parts],          *)
(* [t |-> "object", part |-> part] or [t |-> "absent"] (undefined or null).  *)
(* A message has the fields type, timestamp, sessionId, cwd, version and     *)
(* thinking (atoms, <<>> when absent), content (the top-level field) and     *)
(* mcontent (message.content, absent when there is no message field).        *)

truthy(content) ==
    content.t \in {"array", "object"} \/ (content.t = "string" /\ content.s # <<>>)

formatContentThrows(content) ==
    CASE content.t = "array" ->
           \E i \in 1..Len(content.parts) : formatContentPartThrows(content.parts[i])
      [] content.t = "object" -> formatContentPartThrows(content.part)
      [] OTHER -> FALSE

nonEmpty(l) == l # <<>>

\* a variant of joinLines that leaves the empty elements out
joinNonEmpty(ls) == sequentially(<<ls>>, join(SelectSeq(ls, nonEmpty), <<NL>>))

\* Array.prototype.join('\n')
joinLines(ls) == sequentially(<<ls>>, join(ls, <<NL>>))

formatContent(content) ==
    CASE sequentially(<<content>>, content.t = "string") -> formatText(content.s)
      [] content.t = "array" ->
           joinLines([i \in 1..Len(content.parts) |-> formatContentPart(content.parts[i])])
      [] content.t = "object" -> formatContentPart(content.part)
      [] OTHER -> <<>>

formatAssistantContent(parts) ==
    joinLines([i \in 1..Len(parts) |-> formatContentPart(parts[i])])

\* dayjs(timestamp).format('YYYY-MM-DD HH:mm:ss'), the local time zone being UTC
formatTimestamp(timestamp) ==
    IF timestamp = <<"2024-01-01T10:00:00Z">> THEN <<"2024-01-01", SP, "10:00:00">>
    ELSE <<"Invalid", SP, "Date">>

\* msg.message?.content || msg.content || ''
userContent(msg) ==
    IF truthy(msg.mcontent) THEN msg.mcontent
    ELSE IF truthy(msg.content) THEN msg.content
    ELSE [t |-> "string", s |-> <<>>]

\* lines 75-80: the main content of an assistant message
mainContent(msg) ==
    IF truthy(msg.content) /\ msg.content.t = "array"
    THEN formatAssistantContent(msg.content.parts)
    ELSE IF truthy(msg.mcontent) THEN formatContent(msg.mcontent)
    ELSE <<>>

formatMessageThrows(msg) ==
    CASE msg.type = "user" -> formatContentThrows(userContent(msg))
      [] msg.type = "assistant" ->
           IF truthy(msg.content) /\ msg.content.t = "array"
           THEN formatContentThrows(msg.content)
           ELSE truthy(msg.mcontent) /\ formatContentThrows(msg.mcontent)
      [] OTHER -> FALSE

Heading == <<"#", "#", "#", SP>>
ThinkingLabel == <<"[thinking]", SP, "**Thinking**">>

\* a variant of userTurn without the test for blank content
userTurnUnchecked(timestamp, formattedContent) ==
    join(<< Heading \o <<"[user]", SP, "User", SP>> \o timestamp \o <<NL>>,
            formattedContent, <<>> >>, <<NL>>)

\* lines 52-61: the user branch
userTurn(timestamp, formattedContent) ==
    IF sequentially(<<formattedContent>>, trim(formattedContent) = <<>>) THEN <<>>
    ELSE join(<< Heading \o <<"[user]", SP, "User", SP>> \o timestamp \o <<NL>>,
                 formattedContent, <<>> >>, <<NL>>)

\* lines 68-73: the quoted thinking block, as the lines pushed
thinkingBlock(thinking) ==
    LET thinkingLines == split(thinking)
    IN IF thinking # <<>>
       THEN << Quote \o ThinkingLabel \o <<NL, GT>>,
               join([i \in 1..Len(thinkingLines) |-> Quote \o thinkingLines[i]], <<NL>>),
               <<>> >>
       ELSE <<>>

\* a variant of assistantTurn in which thinking alone does not count as content
assistantTurnContentOnly(timestamp, thinking, main) ==
    LET tempLines == << Heading \o <<"[robot]", SP, "Assistant", SP>> \o timestamp \o <<NL>> >>
                     \o thinkingBlock(thinking) \o <<main>>
    IN IF sequentially(<<main>>, trim(main) # <<>>)
       THEN join(tempLines \o << <<>> >>, <<NL>>) ELSE <<>>

\* lines 62-93: the assistant branch
assistantTurn(timestamp, thinking, main) ==
    LET tempLines == << Heading \o <<"[robot]", SP, "Assistant", SP>> \o timestamp \o <<NL>> >>
                     \o thinkingBlock(thinking)
                     \o (IF trim(main) # <<>> THEN <<main>> ELSE <<>>)
        hasContent == thinking # <<>> \/ trim(main) # <<>>
    IN IF sequentially(<<main>>, hasContent)
       THEN join(tempLines \o << <<>> >>, <<NL>>) ELSE <<>>

\* a variant of formatMessage that renders a turn of any other role as a user turn
formatAnyRole(msg) ==
    LET timestamp == IF msg.timestamp # <<>> THEN formatTimestamp(msg.timestamp) ELSE <<>>
    IN IF sequentially(<<msg>>, msg.type = "assistant")
       THEN assistantTurn(timestamp, msg.thinking, mainContent(msg))
       ELSE userTurn(timestamp, formatContent(userContent(msg)))

\* lines 48-97: a turn that is neither user nor assistant pushes no line
formatMessage(msg) ==
    LET timestamp == IF msg.timestamp # <<>> THEN formatTimestamp(msg.timestamp) ELSE <<>>
    IN CASE sequentially(<<msg>>, msg.type = "user") ->
              userTurn(timestamp, formatContent(userContent(msg)))
         [] msg.type = "assistant" -> assistantTurn(timestamp, msg.thinking, mainContent(msg))
         [] OTHER -> <<>>

\* a variant of extractSessionMetadata that does not ask for the version
extractWithoutVersion(firstMessage) ==
    IF firstMessage.sessionId # <<>> /\ firstMessage.timestamp # <<>>
       /\ firstMessage.cwd # <<>>
    THEN << [sessionId |-> firstMessage.sessionId,
             timestamp |-> formatTimestamp(firstMessage.timestamp),
             cwd |-> firstMessage.cwd,
             version |-> firstMessage.version] >>
    ELSE <<>>

\* null when a field is missing, modelled as <<>>
extractSessionMetadata(firstMessage) ==
    IF firstMessage.sessionId # <<>> /\ firstMessage.timestamp # <<>>
       /\ firstMessage.cwd # <<>> /\ firstMessage.version # <<>>
    THEN << [sessionId |-> firstMessage.sessionId,
             timestamp |-> formatTimestamp(firstMessage.timestamp),
             cwd |-> firstMessage.cwd,
             version |-> firstMessage.version] >>
    ELSE <<>>

Title == <<"#", SP, "Claude", SP, "Conversation", NL>>
SessionHeader == <<"#", "#", SP, "Session", SP, "Information", NL>>
\* a variant of ConversationHeader that holds the header twice
RepeatedHeader == <<"#", "#", SP, "Conversation", NL, NL, "#", "#", SP, "Conversation", NL>>
ConversationHeader == <<"#", "#", SP, "Conversation", NL>>

convertToMarkdownThrows(messages) ==
    \E i \in 1..Len(messages) : formatMessageThrows(messages[i])

\* a variant of push that pushes the blank outputs too
pushAlways(lines, formattedMsg) == Append(lines, formattedMsg)

\* lines 39-42: a formatted message is pushed unless it is blank
push(lines, formattedMsg) ==
    IF sequentially(<<lines, formattedMsg>>, trim(formattedMsg) # <<>>)
    THEN Append(lines, formattedMsg)
    ELSE lines

\* lines 37-43: the loop over the messages
RECURSIVE pushMessages(_, _, _)
pushMessages(lines, messages, i) ==
    IF sequentially(<<lines>>, i > Len(messages)) THEN lines
    ELSE pushMessages(push(lines, formatMessage(messages[i])), messages, i + 1)

\* lines 24-33: the Session Information block
sessionLines(metadata) ==
    IF metadata # <<>>
    THEN << SessionHeader,
            <<"-", SP, "**Session ID**", ":", SP>> \o metadata[1].sessionId,
            <<"-", SP, "**Started**", ":", SP>> \o metadata[1].timestamp,
            <<"-", SP, "**Working Directory**", ":", SP>> \o metadata[1].cwd,
            <<"-", SP, "**Version**", ":", SP>> \o metadata[1].version \o <<NL>> >>
    ELSE <<>>

convertToMarkdown(messages) ==
    joinLines(pushMessages(
        <<Title>>
        \o sessionLines(IF messages # <<>> THEN extractSessionMetadata(messages[1]) ELSE <<>>)
        \o <<ConversationHeader>>, messages, 1))

----------------------------------------------------------------------------
(* Behaviours.  A behaviour calls one method of MarkdownExporter on one     *)
(* input: pc goes from "ready" to "returned" (ret holds the value) or to    *)
(* "threw" (the method raised).  cleanMetadata is applied again to its own  *)
(* output, up to MaxCalls times.                                            *)

DefaultMaxResultLength == 3000

Ready(method, inputs, limits) ==
    /\ pc = "ready"
    /\ fn = method
    /\ arg \in inputs
    /\ ret = <<>>
    /\ prev = <<>>
    /\ calls = 0
    /\ maxResultLength \in limits
    /\ local = <<>>
    /\ fs = <<>>
    /\ io = <<>>

Return(value) ==
    /\ pc' = "returned"
    /\ ret' = value
    /\ prev' = ret
    /\ calls' = calls + 1
    /\ UNCHANGED <<fn, arg, maxResultLength, local, fs, io>>

Throw ==
    /\ pc' = "threw"
    /\ calls' = calls + 1
    /\ UNCHANGED <<fn, arg, ret, prev, maxResultLength, local, fs, io>>

\* the values of the inputs
Str(s) == [t |-> "string", s |-> s]
Arr(parts) == [t |-> "array", parts |-> parts]
Obj(part) == [t |-> "object", part |-> part]
Absent == [t |-> "absent"]
TextPart(text) == [type |-> "text", text |-> text]
ToolUsePart(name, input) == [type |-> "tool_use", name |-> name, input |-> input]
ToolResultPart(content) == [type |-> "tool_result", content |-> content]
OtherPart == [type |-> "other"]
NullPart == [type |-> "null"]
Message(type, timestamp, sessionId, cwd, version, thinking, content, mcontent) ==
    [type |-> type, timestamp |-> timestamp, sessionId |-> sessionId, cwd |-> cwd,
     version |-> version, thinking |-> thinking, content |-> content, mcontent |-> mcontent]

TS == <<"2024-01-01T10:00:00Z">>
ReminderOnly == <<"<system-reminder", GT, "x", "</system-reminder", GT>>

\* the sequences of at most n elements of S
SeqsUpTo(S, n) == UNION {[1..k -> S] : k \in 0..n}

----------------------------------------------------------------------------
(* convertToMarkdown on a sequence of turns *)

MaxTurns == 3

ExportMessages ==
    { \* a user turn with text, and all four session fields
      Message("user", TS, <<"s", "1">>, <<"/", "a">>, <<"1", ".", "0">>, <<>>,
              Str(<<"#", "#", SP, "Conversation", NL, "a">>), Absent),
      \* blank user turns: empty, white space, removed annotations, empty parts
      Message("user", <<>>, <<>>, <<>>, <<>>, <<>>, Str(<<>>), Absent),
      Message("user", TS, <<"s", "1">>, <<"/", "a">>, <<>>, <<>>, Str(<<SP, NL, SP>>), Absent),
      Message("user", TS, <<"s", "1">>, <<>>, <<"1", ".", "0">>, <<>>, Absent, Str(ReminderOnly)),
      Message("user", <<>>, <<"s", "1">>, <<"/", "a">>, <<"1", ".", "0">>, <<>>, Absent,
              Arr(<<TextPart(<<>>), OtherPart>>)),
      \* assistant turns: thinking alone, content alone, neither
      Message("assistant", TS, <<"s", "2">>, <<"/", "b">>, <<"2", ".", "0">>,
              <<"a", NL, "b">>, Absent, Absent),
      Message("assistant", TS, <<>>, <<"/", "a">>, <<"1", ".", "0">>, <<>>, Absent,
              Arr(<<TextPart(<<"b">>)>>)),
      Message("assistant", <<>>, <<>>, <<>>, <<>>, <<>>, Absent, Str(<<SP>>)),
      \* a turn of another role
      Message("system", TS, <<"s", "1">>, <<"/", "a">>, <<"1", ".", "0">>, <<>>,
              Str(<<"a">>), Absent) }

InitExport ==
    Ready("convertToMarkdown", SeqsUpTo(ExportMessages, MaxTurns), {DefaultMaxResultLength})

ConvertToMarkdown ==
    /\ pc = "ready"
    /\ fn = "convertToMarkdown"
    /\ IF convertToMarkdownThrows(arg) THEN Throw ELSE Return(convertToMarkdown(arg))

NextExport == ConvertToMarkdown

SpecExport == InitExport /\ [][NextExport]_vars

\* what the claims about the document read off it
TitleLine == <<"#", SP, "Claude", SP, "Conversation", NL>>
ConversationLine == <<"#", "#", SP, "Conversation", NL>>
SessionLine == <<"#", "#", SP, "Session", SP, "Information", NL>>

blank(text) == trim(text) = <<>>

\* the outputs of formatMessage on each turn alone, the blank ones left out, each
\* after the separator the assembler joins with
turnOutputs(messages) ==
    Flatten([i \in 1..Len(messages) |->
                IF blank(formatMessage(messages[i])) THEN <<>>
                ELSE <<NL>> \o formatMessage(messages[i])])

\* the document up to the turns
preamble(doc, messages) == SubSeq(doc, 1, Len(doc) - Len(turnOutputs(messages)))

occurrences(text, t) == {p \in 1..Len(text) : litAt(text, p, t)}

\* C1: once convertToMarkdown has returned, what follows the Conversation header
\* is exactly the non-blank outputs of formatMessage on each turn alone, in input
\* order; a turn whose output is blank contributes nothing.
C1_ConversationIsTheTurns ==
    pc = "returned" =>
        \E p \in occurrences(ret, ConversationLine) :
            /\ p + Len(ConversationLine) - 1 = Len(preamble(ret, arg))
            /\ SubSeq(ret, p + Len(ConversationLine), Len(ret)) = turnOutputs(arg)

\* a document of two turns, the first blank and left out, the second rendered
C1_Witness ==
    /\ pc = "returned"
    /\ Len(arg) = 2
    /\ blank(formatMessage(arg[1]))
    /\ ~blank(formatMessage(arg[2]))
    /\ endsWith(ret, ConversationLine \o <<NL>> \o formatMessage(arg[2]))

\* C2: the document starts with the fixed title line; the assembler emits the
\* Conversation header exactly once, after the title; for the empty sequence
\* nothing follows the header.
C2_TitleAndOneHeader ==
    pc = "returned" =>
        LET head == preamble(ret, arg)
        IN /\ startsWith(ret, TitleLine)
           /\ Cardinality(occurrences(head, ConversationLine)) = 1
           /\ \A p \in occurrences(head, ConversationLine) :
                 p > Len(TitleLine) /\ p + Len(ConversationLine) - 1 = Len(head)
           /\ arg = <<>> => ret = TitleLine \o <<NL>> \o ConversationLine

\* a document whose only turn repeats the text of the header
C2_Witness ==
    /\ pc = "returned"
    /\ Len(arg) = 1
    /\ Cardinality(occurrences(ret, ConversationLine)) = 2
    /\ Cardinality(occurrences(preamble(ret, arg), ConversationLine)) = 1

hasAllFour(message) ==
    /\ message.sessionId # <<>>
    /\ message.timestamp # <<>>
    /\ message.cwd # <<>>
    /\ message.version # <<>>

\* C3: the Session Information block is there if and only if the first turn has
\* all four fields; it holds the first turn's fields, in the order Session ID,
\* Started, Working Directory, Version, whatever the later turns hold.
C3_SessionBlockFromFirstTurn ==
    pc = "returned" =>
        LET head == preamble(ret, arg)
            complete == arg # <<>> /\ hasAllFour(arg[1])
        IN /\ complete <=> occurrences(head, SessionLine) # {}
           /\ complete =>
                head = TitleLine \o <<NL>> \o SessionLine \o <<NL>>
                       \o <<"-", SP, "**Session ID**", ":", SP>> \o arg[1].sessionId \o <<NL>>
                       \o <<"-", SP, "**Started**", ":", SP, "2024-01-01", SP, "10:00:00", NL>>
                       \o <<"-", SP, "**Working Directory**", ":", SP>> \o arg[1].cwd \o <<NL>>
                       \o <<"-", SP, "**Version**", ":", SP>> \o arg[1].version
                       \o <<NL, NL>> \o ConversationLine
           /\ ~complete => head = TitleLine \o <<NL>> \o ConversationLine

\* a first turn that lacks the version only, followed by a turn with all four
\* fields: no block
C3_Witness ==
    /\ pc = "returned"
    /\ Len(arg) = 2
    /\ arg[1].version = <<>> /\ arg[1].sessionId # <<>>
    /\ arg[1].timestamp # <<>> /\ arg[1].cwd # <<>>
    /\ hasAllFour(arg[2])
    /\ occurrences(ret, SessionLine) = {}

isBlankUserTurn(message) ==
    message.type = "user" /\ blank(formatContent(userContent(message)))

\* C10: a user turn whose formatted content is blank formats to the empty
\* string, and the document holds one User heading for each of the other user
\* turns and none for it.
C10_BlankUserTurnOmitted ==
    pc = "returned" =>
        /\ \A i \in 1..Len(arg) : isBlankUserTurn(arg[i]) => formatMessage(arg[i]) = <<>>
        /\ Cardinality(occurrences(ret, <<"[user]", SP, "User">>))
             = Cardinality({i \in 1..Len(arg) :
                              arg[i].type = "user" /\ ~isBlankUserTurn(arg[i])})

\* a blank user turn next to a user turn that is rendered
C10_Witness ==
    /\ pc = "returned"
    /\ Len(arg) = 2
    /\ isBlankUserTurn(arg[1])
    /\ arg[1].mcontent = Str(ReminderOnly)
    /\ arg[2].type = "user" /\ ~isBlankUserTurn(arg[2])
    /\ Cardinality(occurrences(ret, <<"[user]", SP, "User">>)) = 1

----------------------------------------------------------------------------
(* formatMessage on one turn *)

TurnMessages ==
    { Message(type, timestamp, <<>>, <<>>, <<>>, thinking, content, mcontent) :
        type \in {"assistant", "user", "system", "summary"},
        timestamp \in {<<>>, TS},
        thinking \in {<<>>, <<"a">>, <<"a", NL, NL, "b">>, <<SP>>},
        content \in {Absent, Str(<<"a">>), Arr(<<>>), Arr(<<TextPart(<<"b">>)>>)},
        mcontent \in {Absent, Str(<<"a">>), Str(<<SP, NL>>), Str(ReminderOnly),
                      Arr(<<TextPart(<<>>), OtherPart>>),
                      Arr(<<ToolUsePart(<<"R">>, [t |-> "undefined"])>>)} }

InitTurn == Ready("formatMessage", TurnMessages, {DefaultMaxResultLength})

FormatMessage ==
    /\ pc = "ready"
    /\ fn = "formatMessage"
    /\ IF formatMessageThrows(arg) THEN Throw ELSE Return(formatMessage(arg))

NextTurn == FormatMessage

SpecTurn == InitTurn /\ [][NextTurn]_vars

\* the lines of a thinking-only assistant turn
thinkingOnly(timestamp, thinking) ==
    << <<"#", "#", "#", SP, "[robot]", SP, "Assistant", SP>> \o timestamp,
       <<>>,
       <<GT, SP, "[thinking]", SP, "**Thinking**">>,
       <<GT>> >>
    \o [i \in 1..Len(split(thinking)) |-> <<GT, SP>> \o split(thinking)[i]]
    \o << <<>>, <<>> >>

\* C9: an assistant turn formats to the empty string if and only if it has no
\* thinking text and its formatted main content is blank; with thinking text and
\* blank content it formats to the title line and the quoted Thinking block,
\* every line of the thinking text after the quote marker.
C9_AssistantEmptyIff ==
    (pc = "returned" /\ arg.type = "assistant") =>
        /\ ret = <<>> <=> (arg.thinking = <<>> /\ blank(mainContent(arg)))
        /\ (arg.thinking # <<>> /\ blank(mainContent(arg))) =>
              split(ret) = thinkingOnly(IF arg.timestamp = <<>> THEN <<>>
                                        ELSE <<"2024-01-01", SP, "10:00:00">>,
                                        arg.thinking)

\* thinking text of three lines, one of them empty, and content that is blank
\* once its annotation is removed
C9_Witness ==
    /\ pc = "returned"
    /\ arg.type = "assistant"
    /\ arg.thinking = <<"a", NL, NL, "b">>
    /\ arg.mcontent = Str(ReminderOnly)
    /\ arg.content = Absent
    /\ ret # <<>>

\* C11: a turn whose role is neither user nor assistant (system, or any other
\* value) formats to the empty string without raising, whatever content,
\* thinking and timestamp it carries, and the assembler pushes nothing for it.
C11_OtherRoleEmpty ==
    (pc # "ready" /\ arg.type \notin {"user", "assistant"}) =>
        /\ pc = "returned"
        /\ ret = <<>>
        /\ push(<<Title, ConversationHeader>>, ret) = <<Title, ConversationHeader>>

\* the main content by the fields: the top-level field when its formatted
\* content is not blank, else the nested message field
contentByField(msg) ==
    IF ~blank(formatContent(msg.content)) THEN formatContent(msg.content)
    ELSE IF formatContentThrows(msg.mcontent) THEN <<>>
    ELSE formatContent(msg.mcontent)

\* C27: an assistant turn takes its main content from the top-level content
\* field when that is populated (a string or a sequence of parts) and from the
\* nested message field otherwise; when exactly one of the two holds non-blank
\* content, the turn renders it.
C27_ContentFromEitherField ==
    (pc = "returned" /\ arg.type = "assistant") =>
        ret = assistantTurn(IF arg.timestamp # <<>> THEN formatTimestamp(arg.timestamp)
                            ELSE <<>>,
                            arg.thinking, contentByField(arg))

\* a system turn with a timestamp, thinking text and content in both fields
C11_Witness ==
    /\ pc = "returned"
    /\ arg.type = "system"
    /\ arg.timestamp = TS
    /\ arg.thinking = <<"a", NL, NL, "b">>
    /\ arg.content = Arr(<<TextPart(<<"b">>)>>)
    /\ arg.mcontent = Str(<<"a">>)
    /\ ret = <<>>

----------------------------------------------------------------------------
(* formatContent on a content of any shape *)

MaxParts == 2

ContentParts ==
    { TextPart(<<"a">>), TextPart(<<>>),
      ToolUsePart(<<"R">>, [t |-> "obj", kv |-> << <<<<"a">>, [t |-> "num", n |-> 1]>> >>]),
      ToolUsePart(<<>>, [t |-> "undefined"]),
      ToolResultPart(Str(<<"a">>)),
      ToolResultPart([t |-> "obj", kv |-> << <<<<"a">>, [t |-> "null"]>> >>]),
      ToolResultPart([t |-> "undefined"]),
      OtherPart, NullPart }

\* the inputs of a tool invocation: absent, null, the empty mapping, mappings
\* with one key (a number, an empty mapping, the text of the placeholder)
EmptyMapping == [t |-> "obj", kv |-> <<>>]
ToolInputs ==
    { [t |-> "undefined"], [t |-> "null"], EmptyMapping,
      [t |-> "obj", kv |-> << <<<<"a">>, [t |-> "num", n |-> 1]>> >>],
      [t |-> "obj", kv |-> << <<<<"a">>, EmptyMapping>> >>],
      [t |-> "obj", kv |-> << <<<<"b">>, [t |-> "str", s |-> <<"(empty)">>]>>,
                              <<<<"a">>, [t |-> "arr", el |-> <<>>]>> >>] }

ToolUseParts == {ToolUsePart(name, input) : name \in {<<>>, <<"R">>}, input \in ToolInputs}

Contents ==
    {Absent, Str(<<>>), Str(<<"a">>)}
    \cup {Obj(part) : part \in (ContentParts \ {NullPart}) \cup ToolUseParts}
    \cup {Arr(parts) : parts \in SeqsUpTo(ContentParts, MaxParts)}

\* formatContent takes any content, formatAssistantContent a sequence of parts
InitContent ==
    \/ Ready("formatContent", Contents, {DefaultMaxResultLength})
    \/ Ready("formatAssistantContent",
             {Arr(parts) : parts \in SeqsUpTo(ContentParts, MaxParts)},
             {DefaultMaxResultLength})

FormatContent ==
    /\ pc = "ready"
    /\ fn = "formatContent"
    /\ IF formatContentThrows(arg) THEN Throw ELSE Return(formatContent(arg))

FormatAssistantContent ==
    /\ pc = "ready"
    /\ fn = "formatAssistantContent"
    /\ IF formatContentThrows(arg) THEN Throw ELSE Return(formatAssistantContent(arg.parts))

NextContent == FormatContent \/ FormatAssistantContent

SpecContent == InitContent /\ [][NextContent]_vars

\* C4: formatting never raises, whatever the shape of the content: a string, null
\* or undefined, one part or a sequence of parts (text with or without text, a
\* tool invocation with or without input, a tool result with string, structured
\* or absent content, an unknown tag, a null element).
C4_FormatNeverRaises == pc # "threw"

\* the fragments of the parts from the i-th on, one newline before each but the first
RECURSIVE fragmentsFrom(_, _)
fragmentsFrom(parts, i) ==
    IF i > Len(parts) THEN <<>>
    ELSE (IF i > 1 THEN <<NL>> ELSE <<>>)
         \o formatContentPart(parts[i]) \o fragmentsFrom(parts, i + 1)

\* C12: formatContent and formatAssistantContent on a sequence of parts return
\* the fragments of the parts, each formatted on its own, in input order, with
\* exactly one newline between consecutive fragments, the empty fragments keeping
\* their position; the empty sequence gives the empty string.
C12_JoinOfFragments ==
    (pc = "returned" /\ arg.t = "array") =>
        /\ ret = fragmentsFrom(arg.parts, 1)
        /\ arg.parts = <<>> => ret = <<>>

\* the lines of a rendered tool invocation, up to the content of the fence
toolUseOpening(item) ==
    << <<>>,
       <<"[wrench]", SP, "**Tool Use**", ":", SP>>
       \o (IF item.name = <<>> THEN <<"Unknown", SP, "Tool">> ELSE item.name),
       <<BT, BT, BT, "json">> >>

isEmptyInput(input) ==
    input.t \in {"undefined", "null"} \/ (input.t = "obj" /\ input.kv = <<>>)

\* C13: a tool invocation whose input is absent or an empty mapping renders the
\* Tool Use line and a json fence holding the placeholder (empty), never the
\* serialized {}; one whose input is a non-empty mapping renders the Tool Use
\* line and a json fence holding the serialized input, never the placeholder.
C13_EmptyInputPlaceholder ==
    (pc = "returned" /\ arg.t = "object" /\ arg.part.type = "tool_use") =>
        IF isEmptyInput(arg.part.input)
        THEN /\ split(ret) = toolUseOpening(arg.part) \o << <<"(empty)">>, <<BT, BT, BT>> >>
             /\ occurrences(ret, <<"{", "}">>) = {}
        ELSE /\ ret = join(toolUseOpening(arg.part), <<NL>>) \o <<NL>>
                      \o stringify(arg.part.input, 0) \o <<NL, BT, BT, BT>>
             /\ split(ret)[4] = <<"{">>
             /\ split(ret)[4] # <<"(empty)">>

\* a named tool with the empty mapping as input: the fence holds the placeholder
C13_Witness ==
    /\ pc = "returned"
    /\ arg = Obj(ToolUsePart(<<"R">>, EmptyMapping))
    /\ split(ret)[2] = <<"[wrench]", SP, "**Tool Use**", ":", SP, "R">>
    /\ split(ret)[4] = <<"(empty)">>

\* two parts, the first rendering empty: the output starts with the separator
C12_Witness ==
    /\ pc = "returned"
    /\ fn = "formatAssistantContent"
    /\ arg = Arr(<<OtherPart, TextPart(<<"a">>)>>)
    /\ ret = <<NL, "a">>

----------------------------------------------------------------------------
(* formatContentPart on a tool result whose content is a string *)

RunLength == 100
MaxPieces == 2

ResultPieces ==
    { [i \in 1..RunLength |-> "x"],
      <<"a", ".", NL>>,
      <<"a", ".">>,
      <<SP, SP>>,
      <<".", ".", ".", SP, "(truncated)">>,
      <<BT, BT, BT, NL, "a", NL>> }

ResultTexts == {Flatten(pieces) : pieces \in SeqsUpTo(ResultPieces, MaxPieces)}

Cutoffs == {2, 101, 102}

InitResult ==
    Ready("formatContentPart", {ToolResultPart(Str(text)) : text \in ResultTexts}, Cutoffs)

FormatContentPart ==
    /\ pc = "ready"
    /\ fn = "formatContentPart"
    /\ IF formatContentPartThrows(arg) THEN Throw ELSE Return(formatContentPart(arg))

NextResult == FormatContentPart

SpecResult == InitResult /\ [][NextResult]_vars

MarkerText == <<".", ".", ".", SP, "(truncated)">>

\* the text between the fences of a rendered tool result
bodyOf(rendered) ==
    IF startsWith(rendered, <<NL, "[outbox]", SP, "**Tool Result**", ":", NL, BT, BT, BT, NL>>)
    THEN SubSeq(rendered, 11, Len(rendered) - 4)
    ELSE <<>>

\* the text the cut applies to: the string scrubbed, without cat line numbers,
\* its indentation normalised
cutInput(text) == normalizeCodeBlockIndentation(removeCatLineNumbers(cleanMetadata(text)))

\* the content before the first marker of a body
beforeMarker(body) == SubSeq(body, 1, setMin(occurrences(body, MarkerText)) - 1)

fenceCount(text) == Len(findAll(Lit(Fence), text, 1))

newlinesBefore(text, limit) ==
    {p \in 1..Len(text) : /\ text[p] = NL
                          /\ length(SubSeq(text, 1, p - 1)) > limit - TruncationWindow
                          /\ length(SubSeq(text, 1, p - 1)) <= limit}

\* what the cut is to keep: the text up to the last newline within the window,
\* the first limit characters if there is none
keptPrefix(text, limit) ==
    IF newlinesBefore(text, limit) # {}
    THEN SubSeq(text, 1, setMax(newlinesBefore(text, limit)) - 1)
    ELSE substring(text, limit)

\* C19: when a tool result longer than maxResultLength is cut, what is kept ends
\* at the last newline within the 100 characters before the limit if there is
\* one, and is the first maxResultLength characters otherwise, for every
\* positive maxResultLength, those below 100 too; the cut applies to the text
\* after the normalization of its indentation.
C19_CutAtNewlineOrLimit ==
    (/\ pc = "returned"
     /\ length(cutInput(arg.content.s)) > maxResultLength
     /\ ~endsWith(cutInput(arg.content.s), <<"(truncated)">>)) =>
        startsWith(bodyOf(ret),
                   keptPrefix(cutInput(arg.content.s), maxResultLength) \o <<NL>> \o MarkerText)

\* C20: when the text of a tool result, after the cut, holds an odd number of
\* fences, a closing fence is placed before the truncation marker: the body
\* ends with the closing fence and the marker, holds an even number of fences
\* and, if the text held no marker, holds a single marker.
C20_FenceClosedBeforeMarker ==
    (/\ pc = "returned"
     /\ trim(cutInput(arg.content.s)) # <<>>
     /\ fenceCount(truncate(cutInput(arg.content.s), maxResultLength)) % 2 = 1) =>
        /\ endsWith(bodyOf(ret), <<NL, BT, BT, BT, NL>> \o MarkerText)
        /\ fenceCount(bodyOf(ret)) % 2 = 0
        /\ occurrences(cutInput(arg.content.s), <<"(truncated)">>) = {} =>
              Cardinality(occurrences(bodyOf(ret), <<"(truncated)">>)) = 1

\* the last line of the text ends with one of . ; } ] )
endsComplete(text) == text # <<>> /\ text[Len(text)] \in {".", ";", "}", "]", ")"}

\* C28: a tool-result text that fits within maxResultLength, has an even number
\* of fences, does not end with a truncation marker and whose last line ends
\* with one of . ; } ] ) is rendered as it is, with no truncation marker.
C28_CompleteTextUnmarked ==
    (/\ pc = "returned"
     /\ length(cutInput(arg.content.s)) <= maxResultLength
     /\ fenceCount(cutInput(arg.content.s)) % 2 = 0
     /\ ~isTruncated(cutInput(arg.content.s))
     /\ endsComplete(cutInput(arg.content.s))) =>
        /\ bodyOf(ret) = cutInput(arg.content.s)
        /\ occurrences(ret, Truncated) = {}

----------------------------------------------------------------------------
(* formatContentPart on a tool result with fences in it *)

MaxFenceParts == 3

FenceParts == { Fence, <<NL>>, <<"a">>, <<"1">>, <<".">> }

FenceTexts == {Flatten(parts) : parts \in SeqsUpTo(FenceParts, MaxFenceParts)}

InitFence ==
    Ready("formatContentPart", {ToolResultPart(Str(text)) : text \in FenceTexts},
          {DefaultMaxResultLength})

SpecFence == InitFence /\ [][NextResult]_vars

\* C30: for a non-blank tool result the text inside the Tool Result fence holds
\* an even number of fences.
C30_BodyFencesBalanced ==
    (pc = "returned" /\ trim(cutInput(arg.content.s)) # <<>>) =>
        fenceCount(bodyOf(ret)) % 2 = 0

----------------------------------------------------------------------------
(* cleanMetadata on a text, and again on its own output *)

MaxCalls == 2
MaxSegments == 3

HookOpen == <<"<user-prompt-submit-hook", GT>>
HookClose == <<"</user-prompt-submit-hook", GT>>
ReminderOpen == <<"<system-reminder", GT>>
ReminderClose == <<"</system-reminder", GT>>

\* text outside the tags is made of "a", text inside of "x"
PlainSegments == { <<"a">>, <<NL>>, <<SP>>, <<GT, SP, "a", NL>> }
TaggedSegments ==
    { HookOpen \o <<"x">> \o HookClose,
      ReminderOpen \o <<"x">> \o ReminderClose,
      HookOpen \o ReminderOpen \o <<"x">> \o ReminderClose \o <<"x">> \o HookClose,
      HookOpen \o HookOpen \o <<"x">> \o HookClose \o <<"x">> \o HookClose }

ScrubTexts ==
    {Flatten(segments) : segments \in SeqsUpTo(PlainSegments \cup TaggedSegments, MaxSegments)}

InitScrub == Ready("cleanMetadata", ScrubTexts, {DefaultMaxResultLength})

CleanMetadata ==
    /\ fn = "cleanMetadata"
    /\ calls < MaxCalls
    /\ Return(cleanMetadata(IF calls = 0 THEN arg ELSE ret))

NextScrub == CleanMetadata

SpecScrub == InitScrub /\ [][NextScrub]_vars

AnnotationAtoms == {"<user-prompt-submit-hook", "</user-prompt-submit-hook",
                    "<system-reminder", "</system-reminder"}

atomsOf(text) == {text[i] : i \in DOMAIN text}
isOutsideText(a) == a = "a"

\* C7: the scrubbed output of a text with hook or reminder pairs (adjacent or
\* nested) holds neither a tag name nor the enclosed content; the text outside
\* the tags is kept, with no more than one blank line in a row.
C7_AnnotationsRemoved ==
    (calls = 1 /\ atomsOf(arg) \cap AnnotationAtoms # {}) =>
        /\ atomsOf(ret) \cap (AnnotationAtoms \cup {"x"}) = {}
        /\ SelectSeq(ret, isOutsideText) = SelectSeq(arg, isOutsideText)
        /\ occurrences(ret, <<NL, NL, NL>>) = {}

\* C8: on a text without annotation or command tags, scrubbing only trims and
\* collapses newlines, and scrubbing its output again changes nothing.
C8_ScrubIdempotent ==
    atomsOf(arg) \cap AnnotationAtoms = {} =>
        /\ calls = 1 =>
              ret = trim(splice(arg, findAll(ManyNewlinesRe, arg, 1),
                                [i \in 1..Len(arg) |-> <<NL, NL>>], 1, 1))
        /\ calls = 2 => ret = prev

----------------------------------------------------------------------------
(* Paths (node:path, posix) and sanitizeOutputPath                          *)
(* (src/src/utils/pathSanitizer.ts).  A path is a string: the separator is  *)
(* the atom "/", a segment is the run of atoms between two separators.      *)
(* The file system is a record: dirs, the real directories; links, the      *)
(* symbolic links as pairs <<path, real target>>; files, the files written  *)
(* as pairs <<path, content>>; and the working directory cwd.               *)

Sep == "/"
\* os.homedir()
HomeDir == <<Sep, "h">>
DefaultBase == <<"Tools">>
ENOENT == <<"ENOENT">>

isAbsolute(p) == p # <<>> /\ p[1] = Sep

\* the segments of a path, empty ones included
segments(p) == piecesBetween(p, {0, Len(p) + 1} \cup {i \in 1..Len(p) : p[i] = Sep})

\* normalizeString: "." and empty segments dropped, ".." takes the segment before
\* it away; above the root ".." is dropped, above a relative path it stays
RECURSIVE normalizeParts(_, _, _, _)
normalizeParts(parts, i, out, absolute) ==
    IF i > Len(parts) THEN out
    ELSE normalizeParts(parts, i + 1,
            CASE parts[i] \in {<<>>, <<".">>} -> out
              [] parts[i] = <<"..">> ->
                   IF out # <<>> /\ out[Len(out)] # <<"..">>
                   THEN SubSeq(out, 1, Len(out) - 1)
                   ELSE IF absolute THEN out ELSE Append(out, parts[i])
              [] OTHER -> Append(out, parts[i]),
            absolute)

\* path.normalize: a trailing separator is kept
normalize(p) ==
    (IF isAbsolute(p) THEN <<Sep>> ELSE <<>>)
    \o join(normalizeParts(segments(p), 1, <<>>, isAbsolute(p)), <<Sep>>)
    \o (IF Len(p) > 1 /\ p[Len(p)] = Sep
           /\ normalizeParts(segments(p), 1, <<>>, isAbsolute(p)) # <<>>
        THEN <<Sep>> ELSE <<>>)

\* path.join(a, b): the non-empty arguments joined by the separator, normalized
pathJoin(a, b) ==
    IF a = <<>> /\ b = <<>> THEN <<".">>
    ELSE IF normalize(IF b = <<>> THEN a ELSE IF a = <<>> THEN b ELSE a \o <<Sep>> \o b) = <<>>
    THEN <<".">>
    ELSE normalize(IF b = <<>> THEN a ELSE IF a = <<>> THEN b ELSE a \o <<Sep>> \o b)

\* path.resolve(p): absolute, normalized, without trailing separator
resolve(cwd, p) ==
    <<Sep>> \o join(normalizeParts(segments(IF isAbsolute(p) THEN p ELSE cwd \o <<Sep>> \o p),
                                   1, <<>>, TRUE), <<Sep>>)

\* String.prototype.slice(start); the atoms before start are single characters
slice(s, start) == SubSeq(s, start + 1, Len(s))

\* one step of the walk of realpathSync: a link leads to its target, a directory
\* to itself, anything else does not exist
entry(files, next) ==
    IF \E l \in files.links : l[1] = next
    THEN (CHOOSE l \in files.links : l[1] = next)[2]
    ELSE IF next \in files.dirs THEN next ELSE ENOENT

RECURSIVE follow(_, _, _, _)
follow(files, parts, i, acc) ==
    IF acc = ENOENT \/ i > Len(parts) THEN acc
    ELSE follow(files, parts, i + 1, entry(files, acc \o <<Sep>> \o parts[i]))

\* fs.realpathSync(p) for a resolved path p: the real path, or ENOENT
realpathSync(files, p) ==
    IF follow(files, normalizeParts(segments(p), 1, <<>>, TRUE), 1, <<>>) = <<>> THEN <<Sep>>
    ELSE follow(files, normalizeParts(segments(p), 1, <<>>, TRUE), 1, <<>>)

\* lines 14-16 and 33-35: a leading ~ stands for the home directory
expandHome(p) ==
    IF startsWith(p, <<"~">>) THEN pathJoin(HomeDir, slice(p, 2)) ELSE p

\* lines 22-29: the real path, or the resolved path when it does not exist yet
realPathOf(files, resolved) ==
    IF realpathSync(files, resolved) = ENOENT THEN resolved
    ELSE realpathSync(files, resolved)

\* line 32: allowedBase || path.join(homedir(), 'Tools')
baseDirOf(allowedBase) ==
    IF allowedBase # <<>> THEN allowedBase ELSE pathJoin(HomeDir, DefaultBase)

\* lines 33-36
resolvedBaseOf(files, allowedBase) == resolve(files.cwd, expandHome(baseDirOf(allowedBase)))

\* line 44: the value returned
sanitizeOutputPath(files, configPath, allowedBase) ==
    realPathOf(files, resolve(files.cwd, expandHome(configPath)))


\* line 38: the test of the containment
sanitizeThrows(files, configPath, allowedBase) ==
    ~startsWith(sanitizeOutputPath(files, configPath, allowedBase),
                resolvedBaseOf(files, allowedBase))

\* line 40: the message of the error
sanitizeError(allowedBase) ==
    <<"Export directory must be within", SP>> \o baseDirOf(allowedBase) \o <<Sep>>

\* fs-extra ensureDir: the directories of the path that do not exist are made,
\* behind the links the path goes through
RECURSIVE mkdirs(_, _, _, _)
mkdirs(files, parts, i, acc) ==
    IF i > Len(parts) THEN files.dirs
    ELSE IF entry(files, acc \o <<Sep>> \o parts[i]) = ENOENT
    THEN mkdirs([files EXCEPT !.dirs = @ \cup {acc \o <<Sep>> \o parts[i]}],
                parts, i + 1, acc \o <<Sep>> \o parts[i])
    ELSE mkdirs(files, parts, i + 1, entry(files, acc \o <<Sep>> \o parts[i]))

ensureDir(files, dir) ==
    [files EXCEPT !.dirs = mkdirs(files, normalizeParts(segments(dir), 1, <<>>, TRUE), 1, <<>>)]

\* fs.writeFile: the file holds the data, whatever it held
writeFile(files, filepath, data) ==
    [files EXCEPT !.files = {f \in @ : f[1] # filepath} \cup {<<filepath, data>>}]

\* the home directory with its Tools directory, a directory /t outside it and,
\* in linked, a symbolic link from ~/Tools/l to /t
FileSystem(links) ==
    [cwd |-> HomeDir \o <<Sep, "Tools">>,
     dirs |-> {HomeDir, HomeDir \o <<Sep, "Tools">>, <<Sep, "t">>},
     links |-> links,
     files |-> {}]

LinkOut == << HomeDir \o <<Sep, "Tools", Sep, "l">>, <<Sep, "t">> >>
FileSystems == {FileSystem({}), FileSystem({LinkOut})}

\* a behaviour starts with a call of method on one of the inputs, in one of the
\* file systems
Start(method, inputs, fileSystems) ==
    /\ pc = "ready"
    /\ fn = method
    /\ arg \in inputs
    /\ ret = <<>>
    /\ prev = <<>>
    /\ calls = 0
    /\ maxResultLength = DefaultMaxResultLength
    /\ local = <<>>
    /\ fs \in fileSystems
    /\ io = <<>>

\* the method goes on to a statement: value is what it returns or raises, if it
\* does, locals its local variables, files the file system it leaves, and
\* outside the calls to the outside it has just made
Goto(statement, value, locals, files, outside) ==
    /\ pc' = statement
    /\ ret' = value
    /\ local' = locals
    /\ fs' = files
    /\ io' = io \o outside
    /\ UNCHANGED <<fn, arg, prev, calls, maxResultLength>>

----------------------------------------------------------------------------
(* MarkdownExporter.export (lines 10-19), statement by statement.  The      *)
(* argument holds config.exportDir, config.allowedBasePath, the filename    *)
(* and the messages.  ensureDir and writeFile succeed or fail as the file   *)
(* system decides.                                                          *)

TypeError == <<"TypeError">>
EACCES == <<"EACCES">>

ExportDirs ==
    { <<"~", Sep, "Tools", Sep, "x">>,
      <<"~", Sep, "Tools">>,
      <<"~", Sep, "Tools", Sep, "l">>,
      <<"~", Sep, "Tools", Sep, "..", Sep, "y">>,
      <<Sep, "t">> }

Filenames == { <<"a", ".md">>, <<"..", Sep, "a", ".md">> }

ExportedMessages ==
    { <<>>,
      << Message("user", <<>>, <<>>, <<>>, <<>>, <<>>, Str(<<"a">>), Absent) >>,
      << Message("user", <<>>, <<>>, <<>>, <<>>, <<>>, Absent, Arr(<<NullPart>>)) >> }

ExportCalls ==
    { [exportDir |-> dir, allowedBasePath |-> <<>>, filename |-> filename, messages |-> messages] :
        dir \in ExportDirs, filename \in Filenames, messages \in ExportedMessages }

InitWrite == Start("export", ExportCalls, FileSystems)

\* line 11
SanitizeExportDir ==
    /\ pc = "ready"
    /\ fn = "export"
    /\ IF sanitizeThrows(fs, arg.exportDir, arg.allowedBasePath)
       THEN Goto("threw", sanitizeError(arg.allowedBasePath), local, fs,
                 << <<"sanitizeOutputPath", "threw", sanitizeError(arg.allowedBasePath)>> >>)
       ELSE Goto("ensureDir", <<>>,
                 [exportDir |-> sanitizeOutputPath(fs, arg.exportDir, arg.allowedBasePath)],
                 fs, << <<"sanitizeOutputPath", "ok", <<>> >> >>)

\* line 12: the directory is there afterwards
EnsureDir ==
    /\ pc = "ensureDir"
    /\ fn = "export"
    /\ Goto("convert", <<>>, local, ensureDir(fs, local.exportDir),
            << <<"ensureDir", "ok", <<>> >> >>)

\* a variant of EnsureDirFails in which export goes on after the failure
EnsureDirFailsSilently ==
    /\ pc = "ensureDir"
    /\ fn = "export"
    /\ Goto("convert", <<>>, local, fs, << <<"ensureDir", "threw", EACCES>> >>)

\* line 12: the promise of ensureDir rejects, and so does export
EnsureDirFails ==
    /\ pc = "ensureDir"
    /\ fn = "export"
    /\ Goto("threw", EACCES, local, fs, << <<"ensureDir", "threw", EACCES>> >>)

\* lines 14-15
Convert ==
    /\ pc = "convert"
    /\ fn = "export"
    /\ IF convertToMarkdownThrows(arg.messages)
       THEN Goto("threw", TypeError, local, fs, <<>>)
       ELSE Goto("writeFile", <<>>,
                 [exportDir |-> local.exportDir,
                  filepath |-> pathJoin(local.exportDir, arg.filename),
                  markdown |-> convertToMarkdown(arg.messages)], fs, <<>>)

\* line 17
WriteFile ==
    /\ pc = "writeFile"
    /\ fn = "export"
    /\ Goto("return", <<>>, local, writeFile(fs, local.filepath, local.markdown),
            << <<"writeFile", "ok", <<>> >> >>)

\* line 17: the promise of writeFile rejects
WriteFileFails ==
    /\ pc = "writeFile"
    /\ fn = "export"
    /\ Goto("threw", EACCES, local, fs, << <<"writeFile", "threw", EACCES>> >>)

\* line 18
ReturnFilepath ==
    /\ pc = "return"
    /\ fn = "export"
    /\ Goto("returned", local.filepath, local, fs, <<>>)

NextWrite ==
    \/ SanitizeExportDir
    \/ EnsureDir
    \/ EnsureDirFails
    \/ Convert
    \/ WriteFile
    \/ WriteFileFails
    \/ ReturnFilepath

SpecWrite == InitWrite /\ [][NextWrite]_vars

\* the positions in io of the calls of an operation, and of those with an outcome
callsOf(operation) == {k \in 1..Len(io) : io[k][1] = operation}
outcomesOf(operation, outcome) == {k \in callsOf(operation) : io[k][2] = outcome}

\* C14: in export the write of the document is attempted at most once, and only
\* after the validation of the destination succeeded and the directory was
\* made; if the validation or the making of the directory fails, export rejects
\* with that error and no write is attempted; on success the path returned is
\* the validated directory joined with the filename.
C14_WriteOnceAfterValidation ==
    /\ Cardinality(callsOf("writeFile")) <= 1
    /\ \A k \in callsOf("writeFile") :
          /\ outcomesOf("sanitizeOutputPath", "ok") = {1}
          /\ outcomesOf("ensureDir", "ok") = {2}
          /\ k = 3
    /\ \A k \in outcomesOf("sanitizeOutputPath", "threw") \cup outcomesOf("ensureDir", "threw") :
          /\ callsOf("writeFile") = {}
          /\ pc = "threw"
          /\ ret = io[k][3]
    /\ pc = "returned" =>
          /\ ret = normalize(sanitizeOutputPath(fs, arg.exportDir, arg.allowedBasePath)
                             \o <<Sep>> \o arg.filename)
          /\ outcomesOf("writeFile", "ok") = {3}
          /\ <<ret, convertToMarkdown(arg.messages)>> \in fs.files

\* an export that succeeded: the path returned is the directory with the filename
C14_Witness ==
    /\ pc = "returned"
    /\ arg.exportDir = <<"~", Sep, "Tools", Sep, "x">>
    /\ arg.filename = <<"a", ".md">>
    /\ ret = <<Sep, "h", Sep, "Tools", Sep, "x", Sep, "a", ".md">>
    /\ io = << <<"sanitizeOutputPath", "ok", <<>> >>, <<"ensureDir", "ok", <<>> >>,
               <<"writeFile", "ok", <<>> >> >>

----------------------------------------------------------------------------
(* sanitizeOutputPath on a path and an allowed base *)

ConfigPaths ==
    ExportDirs \cup
    { HomeDir \o <<Sep, "Tools", Sep, "x">>,
      <<".", Sep, "x">>,
      <<"..", Sep, "..", Sep, "t">>,
      <<"~", Sep, "Tools", "-evil">>,
      <<"~", Sep, "Tools", "-evil", Sep, "x">>,
      <<"~", Sep, "Tools", Sep, "l", Sep, "n">>,
      <<"~", Sep, "Tools", Sep, Sep, "x", Sep, ".", Sep>>,
      <<"~", Sep, "D", Sep, "x">>,
      <<"~">> }

AllowedBases == { <<>>, <<"~", Sep, "D">>, <<"~", Sep, "Tools", Sep>>, <<Sep, "t">> }

SanitizeCalls ==
    { [configPath |-> configPath, allowedBase |-> allowedBase] :
        configPath \in ConfigPaths, allowedBase \in AllowedBases }

InitSanitize == Start("sanitizeOutputPath", SanitizeCalls, FileSystems)

SanitizeOutputPath ==
    /\ pc = "ready"
    /\ fn = "sanitizeOutputPath"
    /\ IF sanitizeThrows(fs, arg.configPath, arg.allowedBase)
       THEN Goto("threw", sanitizeError(arg.allowedBase), local, fs, <<>>)
       ELSE Goto("returned", sanitizeOutputPath(fs, arg.configPath, arg.allowedBase),
                 local, fs, <<>>)

NextSanitize == SanitizeOutputPath

SpecSanitize == InitSanitize /\ [][NextSanitize]_vars

\* the path is the directory base or lies inside it
isWithin(p, base) ==
    \/ p = base
    \/ base = <<Sep>>
    \/ startsWith(p, base \o <<Sep>>)

\* C15: sanitizeOutputPath returns a path only when the path, resolved and with
\* its symbolic links followed, is the allowed base directory or lies inside
\* it; for every other path (a traversal with "..", a sibling directory whose
\* name begins with the name of the base) it throws.
C15_OnlyInsideBase ==
    (fn = "sanitizeOutputPath" /\ pc = "returned") =>
        isWithin(ret, resolvedBaseOf(fs, arg.allowedBase))

----------------------------------------------------------------------------
(* JSON.parse, on texts without escapes, signs, fractions or exponents.  A  *)
(* result is [ok |-> TRUE, v |-> the value, p |-> the position after it],   *)
(* or Fail.                                                                 *)

Fail == [ok |-> FALSE]
Ok(v, p) == [ok |-> TRUE, v |-> v, p |-> p]

\* the first position from p on that holds no white space
skipWs(s, p) == setMin({i \in p..Len(s) : s[i] \notin WhiteSpace} \cup {Max(p, Len(s) + 1)})

digitsEnd(s, p) == setMin({i \in p..Len(s) : s[i] \notin Digits} \cup {Len(s) + 1})

RECURSIVE toNumber(_, _, _)
toNumber(s, p, q) ==
    IF q <= p THEN 0
    ELSE toNumber(s, p, q - 1) * 10 + (CHOOSE n \in 0..9 : numToStr(n) = <<s[q - 1]>>)

\* a number: digits, without a leading zero
parseNumber(s, p, q) ==
    IF s[p] = "0" /\ q > p + 1 THEN Fail ELSE Ok([t |-> "num", n |-> toNumber(s, p, q)], q)

\* a string that opens at p and closes at q
parseString(s, p, q) ==
    IF q > Len(s) THEN Fail ELSE Ok([t |-> "str", s |-> SubSeq(s, p + 1, q - 1)], q + 1)

stringEnd(s, p) == setMin({i \in (p + 1)..Len(s) : s[i] = DQ} \cup {Len(s) + 1})

\* a key keeps its place when it comes again, and takes the later value
put(kv, key, v) ==
    IF \E i \in 1..Len(kv) : kv[i][1] = key
    THEN [i \in 1..Len(kv) |-> IF kv[i][1] = key THEN <<key, v>> ELSE kv[i]]
    ELSE Append(kv, <<key, v>>)

RECURSIVE parseValue(_, _)
RECURSIVE parseElements(_, _, _)
RECURSIVE parseMembers(_, _, _)

\* after an element: a comma and the next element, or the end of the array
afterElement(s, r, acc) ==
    IF ~r.ok \/ skipWs(s, r.p) > Len(s) THEN Fail
    ELSE IF s[skipWs(s, r.p)] = "," THEN parseElements(s, skipWs(s, r.p) + 1, Append(acc, r.v))
    ELSE IF s[skipWs(s, r.p)] = "]"
    THEN Ok([t |-> "arr", el |-> Append(acc, r.v)], skipWs(s, r.p) + 1)
    ELSE Fail

parseElements(s, p, acc) == afterElement(s, parseValue(s, p), acc)

\* after a member: a comma and the next member, or the end of the object
afterMember(s, key, r, acc) ==
    IF ~r.ok \/ skipWs(s, r.p) > Len(s) THEN Fail
    ELSE IF s[skipWs(s, r.p)] = "," THEN parseMembers(s, skipWs(s, r.p) + 1, put(acc, key.v.s, r.v))
    ELSE IF s[skipWs(s, r.p)] = "}"
    THEN Ok([t |-> "obj", kv |-> put(acc, key.v.s, r.v)], skipWs(s, r.p) + 1)
    ELSE Fail

\* after a key: a colon and the value
afterKey(s, key, acc) ==
    IF ~key.ok \/ skipWs(s, key.p) > Len(s) THEN Fail
    ELSE IF s[skipWs(s, key.p)] # ":" THEN Fail
    ELSE afterMember(s, key, parseValue(s, skipWs(s, key.p) + 1), acc)

memberAt(s, p, acc) ==
    IF p > Len(s) THEN Fail
    ELSE IF s[p] # DQ THEN Fail
    ELSE afterKey(s, parseString(s, p, stringEnd(s, p)), acc)

parseMembers(s, p, acc) == memberAt(s, skipWs(s, p), acc)

\* the value that begins at p, where no white space is
valueAt(s, p) ==
    CASE p > Len(s) -> Fail
      [] s[p] = "null" -> Ok([t |-> "null"], p + 1)
      [] s[p] \in {"true", "false"} -> Ok([t |-> "bool", b |-> s[p] = "true"], p + 1)
      [] s[p] \in Digits -> parseNumber(s, p, digitsEnd(s, p))
      [] s[p] = DQ -> parseString(s, p, stringEnd(s, p))
      [] s[p] = "[" ->
           IF skipWs(s, p + 1) <= Len(s) /\ s[skipWs(s, Min(p + 1, Len(s)))] = "]"
           THEN Ok([t |-> "arr", el |-> <<>>], skipWs(s, p + 1) + 1)
           ELSE parseElements(s, p + 1, <<>>)
      [] s[p] = "{" ->
           IF skipWs(s, p + 1) <= Len(s) /\ s[skipWs(s, Min(p + 1, Len(s)))] = "}"
           THEN Ok([t |-> "obj", kv |-> <<>>], skipWs(s, p + 1) + 1)
           ELSE parseMembers(s, p + 1, <<>>)
      [] OTHER -> Fail

parseValue(s, p) == valueAt(s, skipWs(s, p))

\* the text is one value, with white space around it at most
isWhole(s, r) == r.ok /\ skipWs(s, r.p) > Len(s)

\* JSON.parse(text) throws a SyntaxError
parseThrows(text) == ~isWhole(text, parseValue(text, 1))

\* JSON.parse(text), when it does not throw
parse(text) == parseValue(text, 1).v

----------------------------------------------------------------------------
(* ConversationManager.loadConversationContent                              *)
(* (src/src/lib/ConfigManager.ts, lines 181-193)                            *)

\* line => line.trim()
nonBlank(line) == trim(line) # <<>>

\* line 183: the lines of the file that are not blank
contentLines(content) == SelectSeq(split(content), nonBlank)

\* lines 185-191: the value of a line, null when JSON.parse throws
parseLine(line) == IF parseThrows(line) THEN [t |-> "null"] ELSE parse(line)

\* a variant of Boolean that holds of every value
BooleanOfAny(v) == TRUE

\* Boolean(v), the test of filter(Boolean)
Boolean(v) == truthyJson(v)

parsedLines(lines) == SelectSeq([i \in 1..Len(lines) |-> parseLine(lines[i])], Boolean)

\* lines 182-192: the value returned for a file with this content
loadConversationContent(content) == parsedLines(contentLines(content))

InvalidLineWarning == <<"console.warn", "Invalid JSON line skipped">>

\* line 189: one warning for each line JSON.parse throws on
warningsOf(lines) == [i \in 1..Len(SelectSeq(lines, parseThrows)) |-> InvalidLineWarning]

MaxLines == 3

ConversationFile == HomeDir \o <<Sep, ".claude", Sep, "projects", Sep, "p", Sep, "c", ".jsonl">>

UserRecord == <<"{", DQ, "type", DQ, ":", DQ, "user", DQ, "}">>

\* two records, an empty line, a line of white space, a record cut short, the
\* values null and 0, and a word
ConversationLines ==
    { UserRecord,
      <<"{", SP, DQ, "a", DQ, SP, ":", SP, "[", "1", ",", SP, "{", "}", "]", SP, "}">>,
      <<>>,
      <<SP, TAB>>,
      <<"{", DQ, "a", DQ, ":", "1">>,
      <<"null">>,
      <<"0">>,
      <<"x">> }

ConversationTexts == {join(lines, <<NL>>) : lines \in SeqsUpTo(ConversationLines, MaxLines)}

\* the file holds one of the texts, or is not there
LoadFileSystems ==
    {FileSystem({})}
    \cup {[FileSystem({}) EXCEPT !.files = {<<ConversationFile, content>>}] :
            content \in ConversationTexts}

InitLoad == Start("loadConversationContent", {ConversationFile}, LoadFileSystems)

\* line 182: fs.readFile rejects when the file is not there
ReadFile ==
    /\ pc = "ready"
    /\ fn = "loadConversationContent"
    /\ IF \E f \in fs.files : f[1] = arg
       THEN Goto("parse", <<>>, [content |-> (CHOOSE f \in fs.files : f[1] = arg)[2]], fs,
                 << <<"readFile", "ok">> >>)
       ELSE Goto("threw", ENOENT, local, fs, << <<"readFile", "threw">> >>)

\* lines 183-192
ParseLines ==
    /\ pc = "parse"
    /\ fn = "loadConversationContent"
    /\ Goto("returned", loadConversationContent(local.content), local, fs,
            warningsOf(contentLines(local.content)))

NextLoad == ReadFile \/ ParseLines

SpecLoad == InitLoad /\ [][NextLoad]_vars

isValidLine(line) == nonBlank(line) /\ ~parseThrows(line)
isInvalidLine(line) == nonBlank(line) /\ parseThrows(line)
\* the values that JavaScript takes for false
isFalsy(v) ==
    \/ v.t = "null"
    \/ v.t = "bool" /\ ~v.b
    \/ v.t = "num" /\ v.n = 0
    \/ v.t = "str" /\ v.s = <<>>
isRecordLine(line) == isValidLine(line) /\ ~isFalsy(parse(line))
valuesOf(lines) == [i \in 1..Len(lines) |-> parse(lines[i])]
warned == callsOf("console.warn")

\* C18 (as stated): loadConversationContent returns, in file order, exactly the
\* parsed values of the non-blank lines that are valid JSON; each line that
\* fails to parse is skipped with one warning, and blank lines are skipped
\* silently.
C18_ValidLinesReturned ==
    (fn = "loadConversationContent" /\ pc = "returned") =>
        /\ ret = valuesOf(SelectSeq(split(local.content), isValidLine))
        /\ Cardinality(warned) = Len(SelectSeq(split(local.content), isInvalidLine))

\* C18 (amended): loadConversationContent returns, in file order, exactly the
\* parsed values of the non-blank lines that are valid JSON and whose value is
\* none of null, false, 0 and the empty string; each line that fails to parse is
\* skipped with one warning; blank lines and valid lines with one of these
\* values are skipped silently.
C18_RecordsReturned ==
    (fn = "loadConversationContent" /\ pc = "returned") =>
        /\ ret = valuesOf(SelectSeq(split(local.content), isRecordLine))
        /\ Cardinality(warned) = Len(SelectSeq(split(local.content), isInvalidLine))
        /\ \A i \in 1..Len(ret) : ~isFalsy(ret[i])

\* a file of a record, a line that is not JSON and a blank line: the record is
\* returned, with one warning
C18_Witness ==
    /\ fn = "loadConversationContent"
    /\ pc = "returned"
    /\ local.content = Flatten(<<UserRecord, <<NL, "x", NL, SP, TAB>> >>)
    /\ ret = << [t |-> "obj", kv |-> << <<<<"type">>, [t |-> "str", s |-> <<"user">>]>> >>] >>
    /\ io = << <<"readFile", "ok">>, InvalidLineWarning >>

----------------------------------------------------------------------------
(* ConfigManager.load (src/src/lib/ConfigManager.ts, lines 35-56),          *)
(* statement by statement.  A configuration is a JSON object.  The argument *)
(* is the default export directory (CCHISTORY_EXPORT_DIR, or the exports    *)
(* directory of the project).                                               *)

ConfigDir == HomeDir \o <<Sep, ".config", Sep, "cchistory">>
ConfigFile == ConfigDir \o <<Sep, "config", ".json">>

DefaultMaxPreviewLength == 100
DateFormat == <<"YYYY/MM/DD HH:mm:ss">>

Undefined == [t |-> "undefined"]
StrValue(str) == [t |-> "str", s |-> str]
NumValue(n) == [t |-> "num", n |-> n]

\* lines 27-32
defaultConfig(defaultExportDir) ==
    [t |-> "obj",
     kv |-> << << <<"exportDir">>, StrValue(defaultExportDir) >>,
               << <<"dateFormat">>, StrValue(DateFormat) >>,
               << <<"maxPreviewLength">>, NumValue(DefaultMaxPreviewLength) >>,
               << <<"maxResultLength">>, NumValue(DefaultMaxResultLength) >> >>]

\* object[key]
get(object, key) ==
    IF object.t = "obj" /\ \E i \in 1..Len(object.kv) : object.kv[i][1] = key
    THEN object.kv[CHOOSE i \in 1..Len(object.kv) : object.kv[i][1] = key][2]
    ELSE Undefined

\* the own properties of b put over those of a, one after the other
RECURSIVE putAll(_, _, _)
putAll(kv, more, i) ==
    IF i > Len(more) THEN kv ELSE putAll(put(kv, more[i][1], more[i][2]), more, i + 1)

\* a variant of spread in which the properties of a win
spreadFirstWins(a, b) ==
    [t |-> "obj", kv |-> putAll(IF b.t = "obj" THEN b.kv ELSE <<>>, a.kv, 1)]

\* line 41: { ...a, ...b }; null and numbers have no own properties
spread(a, b) ==
    [t |-> "obj", kv |-> putAll(a.kv, IF b.t = "obj" THEN b.kv ELSE <<>>, 1)]

\* line 44: startsWith on a value that is no string raises a TypeError
validationThrows(files, config) ==
    \/ get(config, <<"exportDir">>).t # "str"
    \/ /\ truthyJson(get(config, <<"allowedBasePath">>))
       /\ get(config, <<"allowedBasePath">>).t # "str"
    \/ sanitizeThrows(files, get(config, <<"exportDir">>).s,
                      IF truthyJson(get(config, <<"allowedBasePath">>))
                      THEN get(config, <<"allowedBasePath">>).s ELSE <<>>)

\* line 44: config.exportDir = sanitizeOutputPath(config.exportDir, config.allowedBasePath)
validated(files, config) ==
    [t |-> "obj",
     kv |-> put(config.kv, <<"exportDir">>,
                StrValue(sanitizeOutputPath(files, get(config, <<"exportDir">>).s,
                            IF truthyJson(get(config, <<"allowedBasePath">>))
                            THEN get(config, <<"allowedBasePath">>).s ELSE <<>>)))]

fileAt(files, filepath) == (CHOOSE f \in files.files : f[1] = filepath)[2]
pathExists(files, filepath) == \E f \in files.files : f[1] = filepath

\* the texts of the configuration file
ConfigTexts ==
    { <<"{", "}">>,
      <<"{", DQ, "maxPreviewLength", DQ, ":", "2", "0", "0", "}">>,
      <<"{", DQ, "exportDir", DQ, ":", DQ, "~", Sep, "Tools", Sep, "x", DQ, "}">>,
      <<"{", DQ, "exportDir", DQ, ":", DQ, Sep, "t", DQ, "}">>,
      <<"{", DQ, "exportDir", DQ, ":", DQ, "~", Sep, "D", Sep, "x", DQ, ",",
             DQ, "allowedBasePath", DQ, ":", DQ, "~", Sep, "D", DQ, "}">>,
      <<"{", DQ, "dateFormat", DQ, ":", DQ, "YYYY", DQ, ",",
             DQ, "maxResultLength", DQ, ":", "5", ",",
             DQ, "exportDir", DQ, ":", DQ, "~", Sep, "Tools", DQ, "}">>,
      <<"{", DQ, "exportDir", DQ, ":", "5", "}">>,
      <<"{">>,
      <<"null">> }

ConfigFileSystems ==
    {FileSystem({})}
    \cup {[FileSystem({}) EXCEPT !.files = {<<ConfigFile, text>>}] : text \in ConfigTexts}

\* the exports directory of a project inside ~/Tools, and of one outside it
DefaultExportDirs ==
    { HomeDir \o <<Sep, "Tools", Sep, "cchistory", Sep, "exports">>,
      <<Sep, "opt", Sep, "cchistory", Sep, "exports">> }

InitConfig == Start("load", DefaultExportDirs, ConfigFileSystems)

\* line 37
EnsureConfigDir ==
    /\ pc = "ready"
    /\ fn = "load"
    /\ Goto("pathExists", <<>>, local, ensureDir(fs, ConfigDir), << <<"ensureDir", "ok", <<>> >> >>)

EnsureConfigDirFails ==
    /\ pc = "ready"
    /\ fn = "load"
    /\ Goto("catch", <<>>, local, fs, << <<"ensureDir", "threw", EACCES>> >>)

\* line 39
PathExists ==
    /\ pc = "pathExists"
    /\ fn = "load"
    /\ Goto(IF pathExists(fs, ConfigFile) THEN "readJson" ELSE "writeJson", <<>>, local, fs,
            << <<"pathExists", "ok", <<>> >> >>)

\* line 40: the file is read and parsed
ReadJson ==
    /\ pc = "readJson"
    /\ fn = "load"
    /\ IF parseThrows(fileAt(fs, ConfigFile))
       THEN Goto("catch", <<>>, local, fs, << <<"readJson", "threw", <<"SyntaxError">> >> >>)
       ELSE Goto("merge", <<>>, [configData |-> parse(fileAt(fs, ConfigFile))], fs,
                 << <<"readJson", "ok", <<>> >> >>)

\* line 40: the file cannot be read
ReadJsonFails ==
    /\ pc = "readJson"
    /\ fn = "load"
    /\ Goto("catch", <<>>, local, fs, << <<"readJson", "threw", EACCES>> >>)

\* lines 41-46
ValidateConfig ==
    /\ pc = "merge"
    /\ fn = "load"
    /\ IF validationThrows(fs, spread(defaultConfig(arg), local.configData))
       THEN Goto("catch", <<>>, local, fs, << <<"sanitizeOutputPath", "threw", <<>> >> >>)
       ELSE Goto("returned", validated(fs, spread(defaultConfig(arg), local.configData)),
                 local, fs, << <<"sanitizeOutputPath", "ok", <<>> >> >>)

\* lines 48-50
WriteJson ==
    /\ pc = "writeJson"
    /\ fn = "load"
    /\ Goto("returned", defaultConfig(arg), local,
            writeFile(fs, ConfigFile, stringify(defaultConfig(arg), 0) \o <<NL>>),
            << <<"writeJson", "ok", <<>> >>, <<"console.log", "ok", <<>> >> >>)

WriteJsonFails ==
    /\ pc = "writeJson"
    /\ fn = "load"
    /\ Goto("catch", <<>>, local, fs, << <<"writeJson", "threw", EACCES>> >>)

\* lines 52-54
CatchLoadError ==
    /\ pc = "catch"
    /\ fn = "load"
    /\ Goto("returned", defaultConfig(arg), local, fs, << <<"console.error", "ok", <<>> >> >>)

NextConfig ==
    \/ EnsureConfigDir
    \/ EnsureConfigDirFails
    \/ PathExists
    \/ ReadJson
    \/ ReadJsonFails
    \/ ValidateConfig
    \/ WriteJson
    \/ WriteJsonFails
    \/ CatchLoadError

SpecConfig == InitConfig /\ [][NextConfig]_vars

Options == { <<"exportDir">>, <<"dateFormat">>, <<"maxPreviewLength">>, <<"maxResultLength">>,
             <<"allowedBasePath">> }

\* a step of load has failed
stepFailed == \E k \in 1..Len(io) : io[k][2] = "threw"

\* the value the file gives to an option, the default value when it gives none
fileOrDefault(key) ==
    IF get(local.configData, key) # Undefined THEN get(local.configData, key)
    ELSE get(defaultConfig(arg), key)

\* load never rejects; when a step has failed it resolves to the defaults; when
\* the file is missing it writes the defaults and returns them
resolvesToDefaults ==
    /\ pc # "threw"
    /\ (pc = "returned" /\ stepFailed) => ret = defaultConfig(arg)
    /\ (pc = "returned" /\ callsOf("writeJson") # {} /\ ~stepFailed) =>
          /\ ret = defaultConfig(arg)
          /\ pathExists(fs, ConfigFile)
          /\ ~parseThrows(fileAt(fs, ConfigFile))
          /\ parse(fileAt(fs, ConfigFile)) = defaultConfig(arg)

\* C17 (as stated): load never rejects; if a step fails it resolves to the
\* default configuration; if the file is missing it writes the defaults and
\* returns them; otherwise each option equals the value of the file when the
\* file has it and the default value when it has not.
C17_FileValueOrDefault ==
    fn = "load" =>
        /\ resolvesToDefaults
        /\ (pc = "returned" /\ callsOf("readJson") # {} /\ ~stepFailed) =>
              \A key \in Options : get(ret, key) = fileOrDefault(key)

\* C17 (amended): as above, but the option exportDir is the absolute path that
\* sanitizeOutputPath makes of the value of the file, or of the default: the
\* home directory for a leading ~, no "." or ".." segment (the file systems
\* here hold no symbolic link).
C17_SanitizedFileValueOrDefault ==
    fn = "load" =>
        /\ resolvesToDefaults
        /\ (pc = "returned" /\ callsOf("readJson") # {} /\ ~stepFailed) =>
              /\ \A key \in Options \ {<<"exportDir">>} : get(ret, key) = fileOrDefault(key)
              /\ get(ret, <<"exportDir">>).t = "str"
              /\ get(ret, <<"exportDir">>).s =
                    resolve(fs.cwd, expandHome(fileOrDefault(<<"exportDir">>).s))
              /\ isAbsolute(get(ret, <<"exportDir">>).s)

\* a file with three options: they are returned, the export directory as an
\* absolute path, and the fourth option has its default value
C17_Witness ==
    /\ fn = "load"
    /\ pc = "returned"
    /\ outcomesOf("readJson", "ok") # {}
    /\ get(local.configData, <<"exportDir">>) = StrValue(<<"~", Sep, "Tools">>)
    /\ get(ret, <<"exportDir">>) = StrValue(<<Sep, "h", Sep, "Tools">>)
    /\ get(ret, <<"dateFormat">>) = StrValue(<<"YYYY">>)
    /\ get(ret, <<"maxResultLength">>) = NumValue(5)
    /\ get(ret, <<"maxPreviewLength">>) = NumValue(100)

----------------------------------------------------------------------------
(* CLI.run and CLI.interactiveMode (src/src/lib/MarkdownExporter.ts, lines  *)
(* 528-545 and 565-607), statement by statement.  The argument is what      *)
(* loadConversations returns: the conversations found, the latest first.    *)
(* The user answers the prompt or cancels it; the file of the selected      *)
(* conversation is there or not; export resolves or rejects.                *)

MaxConversations == 3

ConversationPath(i) ==
    HomeDir \o <<Sep, ".claude", Sep, "projects", Sep, "p", Sep>> \o numToStr(i) \o <<".jsonl">>

\* the conversation of the file i, which began at the time i
Conversation(i) ==
    [project |-> <<"p">>, timestamp |-> i, filePath |-> ConversationPath(i)]

\* conversations.sort((a, b) => b.timestamp.localeCompare(a.timestamp))
ConversationLists ==
    { [k \in 1..Len(ids) |-> Conversation(ids[k])] :
        ids \in { l \in SeqsUpTo(1..MaxConversations, MaxConversations) :
                    \A k \in 1..(Len(l) - 1) : l[k] > l[k + 1] } }

\* each file holds a record and a line that is no JSON, or is not there
CliFileSystems ==
    { [FileSystem({}) EXCEPT
         !.files = {<<ConversationPath(i), Flatten(<<UserRecord, <<NL, "x">> >>)>> : i \in present}] :
        present \in SUBSET (1..MaxConversations) }

InitCli == Start("run", ConversationLists, CliFileSystems)

\* lines 531-532: load never rejects
LoadConfig ==
    /\ pc = "ready"
    /\ fn = "run"
    /\ Goto("loadConversations", <<>>, [exporter |-> TRUE], fs, << <<"load", "ok", <<>> >> >>)

\* lines 534-544: without conversations run returns, otherwise it goes on to
\* interactiveMode and its choices
LoadConversations ==
    /\ pc = "loadConversations"
    /\ fn = "run"
    /\ IF Len(arg) = 0
       THEN Goto("returned", <<>>, local, fs,
                 << <<"loadConversations", "ok", <<>> >>, <<"console.log", "ok", <<>> >> >>)
       ELSE Goto("prompt", <<>>,
                 [exporter |-> local.exporter, conversations |-> arg,
                  choices |-> [k \in 1..Len(arg) |-> k - 1]],
                 fs, << <<"loadConversations", "ok", <<>> >>, <<"console.log", "ok", <<>> >> >>)

\* lines 571-582: the user selects one of the choices
PromptResolves ==
    /\ pc = "prompt"
    /\ fn = "run"
    /\ \E k \in 1..Len(local.choices) :
          Goto("loadConversationContent", <<>>,
               [exporter |-> local.exporter, conversations |-> local.conversations,
                selected |-> local.conversations[local.choices[k] + 1]],
               fs, << <<"prompt", "ok", local.choices[k]>>, <<"console.log", "ok", <<>> >> >>)

\* a variant of PromptCancelled in which the first conversation is taken
PromptCancelledIgnored ==
    /\ pc = "prompt"
    /\ fn = "run"
    /\ Goto("loadConversationContent", <<>>,
            [exporter |-> local.exporter, conversations |-> local.conversations,
             selected |-> local.conversations[1]],
            fs, << <<"prompt", "threw", <<"ExitPromptError">> >> >>)

\* line 572: the user cancels, and the promise of the prompt rejects
PromptCancelled ==
    /\ pc = "prompt"
    /\ fn = "run"
    /\ Goto("catch", <<>>, local, fs, << <<"prompt", "threw", <<"ExitPromptError">> >> >>)

\* line 584
LoadSelectedContent ==
    /\ pc = "loadConversationContent"
    /\ fn = "run"
    /\ IF pathExists(fs, local.selected.filePath)
       THEN Goto("export", <<>>,
                 [exporter |-> local.exporter, selected |-> local.selected,
                  messages |-> loadConversationContent(fileAt(fs, local.selected.filePath))],
                 fs,
                 warningsOf(contentLines(fileAt(fs, local.selected.filePath)))
                 \o << <<"loadConversationContent", "ok", local.selected.filePath>> >>)
       ELSE Goto("catch", <<>>, local, fs,
                 << <<"loadConversationContent", "threw", ENOENT>> >>)

\* lines 586-595: export resolves
ExportResolves ==
    /\ pc = "export"
    /\ fn = "run"
    /\ IF local.exporter
       THEN Goto("returned", <<>>, local, fs,
                 << <<"export", "ok", local.messages>>, <<"console.log", "ok", <<>> >> >>)
       ELSE Goto("returned", <<>>, local, fs, << <<"console.error", "ok", <<>> >> >>)

\* line 594: export rejects
ExportRejects ==
    /\ pc = "export"
    /\ fn = "run"
    /\ local.exporter
    /\ Goto("catch", <<>>, local, fs, << <<"export", "threw", EACCES>> >>)

\* lines 596-605: the error is reported, and interactiveMode returns
CatchCliError ==
    /\ pc = "catch"
    /\ fn = "run"
    /\ Goto("returned", <<>>, local, fs, << <<"console", "ok", <<>> >> >>)

NextCli ==
    \/ LoadConfig
    \/ LoadConversations
    \/ PromptResolves
    \/ PromptCancelled
    \/ LoadSelectedContent
    \/ ExportResolves
    \/ ExportRejects
    \/ CatchCliError

\* run goes on by itself until the prompt, and from a caught error to its
\* return; the user may leave the prompt open for ever
SpecCli ==
    /\ InitCli
    /\ [][NextCli]_vars
    /\ WF_vars(LoadConfig)
    /\ WF_vars(LoadConversations)
    /\ WF_vars(CatchCliError)

\* export is invoked at most once, after the prompt resolved and the content of
\* the selected conversation was loaded; run does not throw
exportAfterSelection ==
    /\ pc # "threw"
    /\ Cardinality(callsOf("export")) <= 1
    /\ \A k \in callsOf("export") :
          \E i \in outcomesOf("prompt", "ok") :
            \E j \in outcomesOf("loadConversationContent", "ok") :
               /\ i < j /\ j < k
               /\ io[j][3] = arg[io[i][3] + 1].filePath
    /\ (Len(arg) = 0) => callsOf("prompt") = {} /\ callsOf("export") = {}
    /\ (outcomesOf("prompt", "threw") # {}) => callsOf("export") = {}

\* there are no conversations, or the prompt was cancelled
nothingSelected == Len(arg) = 0 \/ outcomesOf("prompt", "threw") # {}

\* C16: in a run of the CLI export is invoked at most once, and only after the
\* prompt resolved and the content of the selected conversation was loaded;
\* when no conversation is found (no prompt is shown) or the prompt is
\* cancelled, export is never invoked and run completes without throwing.
C16_ExportAfterSelection ==
    /\ [](fn = "run" => exportAfterSelection)
    /\ (fn = "run" /\ nothingSelected) ~> (pc = "returned" /\ callsOf("export") = {})

\* the second of two conversations was selected, its content loaded with one
\* warning, and export invoked once
C16_Witness ==
    /\ fn = "run"
    /\ pc = "returned"
    /\ Len(arg) = 2
    /\ Len(io) = 9
    /\ io[4] = <<"prompt", "ok", 1>>
    /\ io[6] = InvalidLineWarning
    /\ io[7] = <<"loadConversationContent", "ok", arg[2].filePath>>
    /\ io[8][1] = "export"

----------------------------------------------------------------------------
(* cleanMetadata on texts with self-closing tags, command tags and white    *)
(* space                                                                    *)

MaxTags == 3

HookSelfClosing == <<"<user-prompt-submit-hook", "/", GT>>
ReminderSelfClosing == <<"<system-reminder", "/", GT>>
EmptyStderr == <<"<local-command-stderr", GT, "</local-command-stderr", GT>>
CommandName == <<"<command-name", GT, "c", "</command-name", GT>>

TagSegments ==
    { <<"a">>, <<NL>>, <<SP>>, HookSelfClosing, ReminderSelfClosing, EmptyStderr, CommandName }

TagTexts == {Flatten(parts) : parts \in SeqsUpTo(TagSegments, MaxTags)}

InitTags == Ready("cleanMetadata", TagTexts, {DefaultMaxResultLength})

SpecTags == InitTags /\ [][NextScrub]_vars

\* C21: after scrubbing, the text holds no self-closing user-prompt-submit-hook
\* tag and no self-closing system-reminder tag.
C21_SelfClosingRemoved ==
    calls >= 1 =>
        /\ occurrences(ret, HookSelfClosing) = {}
        /\ occurrences(ret, ReminderSelfClosing) = {}

isWhiteSpace(a) == a \in WhiteSpace

\* C22: the scrubbed output neither starts nor ends with white space and holds
\* no run of three or more newlines, also around the callouts made from
\* command tags.
C22_TrimmedAndCollapsed ==
    calls >= 1 =>
        /\ ret # <<>> => ~isWhiteSpace(ret[1]) /\ ~isWhiteSpace(ret[Len(ret)])
        /\ occurrences(ret, <<NL, NL, NL>>) = {}

C22_Witness ==
    /\ calls = 1
    /\ occurrences(arg, EmptyStderr) # {}
    /\ occurrences(formatCommandTags(arg), <<NL, NL, NL>>) # {}
    /\ isWhiteSpace(arg[1])
    /\ ret # <<>>

----------------------------------------------------------------------------
(* formatCommandTags on a local-command-stderr or local-command-stdout tag  *)

MaxOutputLines == 12

CalloutTags == {"local-command-stderr", "local-command-stdout"}
Paddings == { <<>>, <<NL>>, <<SP, NL>> }

\* the i-th line of an output; the second of more than two lines may be blank
outputLine(i) == <<"l">> \o numToStr(i)
outputLines(n, gapped) ==
    [i \in 1..n |-> IF gapped /\ i = 2 /\ n > 2 THEN <<>> ELSE outputLine(i)]

taggedOutput(tag, lines, pad, before) ==
    Flatten(<< before, <<"<" \o tag, GT>>, pad, join(lines, <<NL>>), pad,
               <<"</" \o tag, GT>>, before >>)

CommandOutputs ==
    { [tag |-> tag, lines |-> outputLines(n, gapped),
       text |-> taggedOutput(tag, outputLines(n, gapped), pad, before)] :
      tag \in CalloutTags, n \in 0..MaxOutputLines, gapped \in BOOLEAN,
      pad \in Paddings, before \in { <<>>, <<"a">> } }

InitCallout == Ready("formatCommandTags", CommandOutputs, {DefaultMaxResultLength})

FormatCommandTags ==
    /\ fn = "formatCommandTags"
    /\ pc = "ready"
    /\ Return(formatCommandTags(arg.text))

NextCallout == FormatCommandTags

SpecCallout == InitCallout /\ [][NextCallout]_vars

isQuoted(line) == startsWith(line, Quote)
quotedLines(text) == SelectSeq(split(text), isQuoted)
labelOf(tag) == IF tag = "local-command-stderr" THEN ErrorOutputLabel ELSE OutputLabel
moreLines(n) == Flatten(<< <<"(">>, numToStr(n), <<SP, "more", SP, "lines", ")">> >>)
hasMoreLines(text) == \E p \in DOMAIN text : text[p] = "more"

\* the callout shows the lines, the last one closed by the fence
showsAll(quoted, lines) ==
    /\ Len(quoted) = Len(lines) + 1
    /\ \A i \in 1..Len(lines) :
          quoted[i + 1] = Quote \o lines[i] \o (IF i = Len(lines) THEN Fence ELSE <<>>)

\* the callout shows the first five lines, then the number of lines left out
showsPreview(quoted, lines) ==
    /\ Len(quoted) = 5 + 3
    /\ \A i \in 1..5 : quoted[i + 1] = Quote \o lines[i]
    /\ quoted[Len(quoted)] = Quote \o moreLines(Len(lines) - 5) \o Fence

\* C23: a command-stderr or command-stdout tag whose trimmed body has L lines
\* shows the first 5 lines and "(L-5 more lines)" when L > 10, all L lines and
\* no marker when 1 <= L <= 10, and "(empty)" without a fence when the body is
\* blank; a non-blank callout has one opening and one closing fence.
C23_CalloutByLineCount ==
    pc = "returned" =>
        /\ Len(arg.lines) = 0 =>
              /\ occurrences(ret, Quote \o labelOf(arg.tag) \o <<SP, "(empty)">>) # {}
              /\ fenceCount(ret) = 0
        /\ Len(arg.lines) > 0 =>
              /\ fenceCount(ret) = 2
              /\ quotedLines(ret)[1] = Flatten(<<Quote, labelOf(arg.tag), <<SP>>, Fence>>)
        /\ Len(arg.lines) \in 1..10 =>
              showsAll(quotedLines(ret), arg.lines) /\ ~hasMoreLines(ret)
        /\ Len(arg.lines) > 10 => showsPreview(quotedLines(ret), arg.lines)

C23_Witness ==
    /\ pc = "returned"
    /\ Len(arg.lines) = 12
    /\ arg.lines[2] = <<>>
    /\ occurrences(ret, moreLines(7)) # {}

----------------------------------------------------------------------------
(* adjustHeadingLevels on the lines of a text *)

MaxHeadingLines == 3

Hashes(n) == [j \in 1..n |-> "#"]

HeadingLines ==
    { Hashes(1) \o <<SP, "a">>, Hashes(2) \o <<SP, "a">>, Hashes(3) \o <<SP, "a">>,
      Hashes(4) \o <<SP, "a">>, Hashes(1) \o <<"a">>, Hashes(1) \o <<TAB, "a">>,
      Hashes(2), <<"a", SP, "#", SP, "a">>, <<>> }

HeadingTexts ==
    {join(lines, <<NL>>) : lines \in SeqsUpTo(HeadingLines, MaxHeadingLines) \ {<<>>}}

InitHeading == Ready("adjustHeadingLevels", HeadingTexts, {DefaultMaxResultLength})

AdjustHeadingLevels ==
    /\ fn = "adjustHeadingLevels"
    /\ pc = "ready"
    /\ Return(adjustHeadingLevels(arg))

NextHeading == AdjustHeadingLevels

SpecHeading == InitHeading /\ [][NextHeading]_vars

\* the line begins with 1 to 3 markers followed by a space
isShallowHeading(line) == \E n \in 1..3 : startsWith(line, Hashes(n) \o <<SP>>)

\* C24: heading-level shifting adds three markers to every line that begins with
\* 1 to 3 markers and a space, and leaves every other line, and the number of
\* lines, as they were; no line of the result begins with 1 to 3 markers and a
\* space.
C24_OnlyShallowHeadingsShifted ==
    pc = "returned" =>
        /\ Len(split(ret)) = Len(split(arg))
        /\ \A i \in 1..Len(split(arg)) :
              /\ i <= Len(split(ret))
              /\ split(ret)[i] = (IF isShallowHeading(split(arg)[i]) THEN Hashes(3) ELSE <<>>)
                                 \o split(arg)[i]
        /\ \A i \in 1..Len(split(ret)) : ~isShallowHeading(split(ret)[i])

----------------------------------------------------------------------------
(* formatEmptyCodeBlocks on a text made of fenced blocks and plain text *)

MaxBlocks == 3

Js == <<"js">>
Block(lang, code) == [lang |-> lang, code |-> code]
PlainText(text) == [plain |-> text]

\* a fenced block: the opening line, the body, the closing fence
blockText(block) == Flatten(<<Fence, block.lang, <<NL>>, block.code, Fence>>)

isBlock(segment) == "code" \in DOMAIN segment
isBlankBlock(segment) == isBlock(segment) /\ trim(segment.code) = <<>>
textOf(segment) == IF isBlock(segment) THEN blockText(segment) ELSE segment.plain

BlockSegments ==
    { Block(<<>>, <<>>), Block(Js, <<>>), Block(<<>>, <<NL>>), Block(Js, <<SP, NL>>),
      Block(<<>>, <<"b", NL>>), Block(Js, <<SP, "b", NL>>),
      PlainText(<<"a">>), PlainText(<<NL>>), PlainText(<<NL, NL>>) }

BlockTexts ==
    { [segments |-> parts,
       text |-> Flatten([i \in 1..Len(parts) |-> textOf(parts[i])])] :
      parts \in SeqsUpTo(BlockSegments, MaxBlocks) }

InitBlocks == Ready("formatEmptyCodeBlocks", BlockTexts, {DefaultMaxResultLength})

FormatEmptyCodeBlocks ==
    /\ fn = "formatEmptyCodeBlocks"
    /\ pc = "ready"
    /\ Return(formatEmptyCodeBlocks(arg.text))

NextBlocks == FormatEmptyCodeBlocks

SpecBlocks == InitBlocks /\ [][NextBlocks]_vars

placeholderBlock(lang) == Flatten(<<Fence, lang, <<NL>>, EmptyCodeBlock, <<NL>>, Fence>>)
blankBlocks(parts, lang) ==
    {i \in 1..Len(parts) : isBlankBlock(parts[i]) /\ parts[i].lang = lang}

\* C25: after empty-code-block detection every fenced block whose body is empty
\* or only white space holds the "(empty code block)" placeholder, its language
\* tag kept.
C25_BlankBlocksGetPlaceholder ==
    pc = "returned" =>
        \A lang \in {<<>>, Js} :
            Cardinality(occurrences(ret, placeholderBlock(lang)))
                >= Cardinality(blankBlocks(arg.segments, lang))

\* the text outside the fenced blocks: the pieces before the 1st, between the
\* 2nd and the 3rd, ... fence
outsideFences(text) ==
    LET fences == findAll(Lit(Fence), text, 1)
    IN [j \in 0..(Len(fences) \div 2) |->
          SubSeq(text,
                 IF j = 0 THEN 1 ELSE matchEnd(fences[2 * j]),
                 IF 2 * j + 1 > Len(fences) THEN Len(text) ELSE fences[2 * j + 1][1] - 1)]

\* C29: on a text whose fenced blocks all have a non-blank body, empty-code-block
\* rewriting inserts no placeholder and leaves the text outside the fences as
\* it was.
C29_NonBlankBlocksUntouched ==
    (/\ pc = "returned"
     /\ \A i \in 1..Len(arg.segments) : ~isBlankBlock(arg.segments[i])) =>
        /\ occurrences(ret, EmptyCodeBlock) = {}
        /\ outsideFences(ret) = outsideFences(arg.text)

----------------------------------------------------------------------------
(* formatContinuationSummary on a text, and again on its own output *)

MaxSummaryLines == 3

FirstLines ==
    { Sentinel, Sentinel \o <<".", SP, "a">>, <<"a">>, <<SP>> \o Sentinel, <<"a", SP>> \o Sentinel }
SummaryLines == { <<>>, <<"b">>, <<SP, "b", SP>> }

\* the first line, then each of the other lines after a newline
SummaryTexts ==
    { [first |-> first, rest |-> rest,
       text |-> first \o Flatten([i \in 1..Len(rest) |-> <<NL>> \o rest[i]])] :
      first \in FirstLines, rest \in SeqsUpTo(SummaryLines, MaxSummaryLines) }

InitFold == Ready("formatContinuationSummary", SummaryTexts, {DefaultMaxResultLength})

FormatContinuationSummary ==
    /\ fn = "formatContinuationSummary"
    /\ calls < MaxCalls
    /\ Return(formatContinuationSummary(IF calls = 0 THEN arg.text ELSE ret))

NextFold == FormatContinuationSummary

SpecFold == InitFold /\ [][NextFold]_vars

SummaryOpen == <<"<summary", GT, "[clipboard]", SP, "<strong", GT>>
SummaryClose == <<"</strong", GT, "</summary", GT>>

\* the disclosure widget with the given visible summary and hidden body
isWidget(text, summary, hidden) ==
    text = Flatten(<< <<"<details", GT, NL>>, SummaryOpen, summary, SummaryClose,
                      <<NL, NL>>, hidden, <<NL, "</details", GT>> >>)

\* C26: a text beginning with the continuation-summary sentinel folds into a
\* disclosure widget whose visible summary is its first line and whose hidden
\* body is the trimmed remainder, also when the remainder is empty; any other
\* text is returned unchanged, and folding a folded text changes nothing.
C26_FoldFirstLineAndRemainder ==
    /\ (calls = 1 /\ startsWith(arg.first, Sentinel)) =>
          isWidget(ret, arg.first, trim(join(arg.rest, <<NL>>)))
    /\ (calls = 1 /\ ~startsWith(arg.first, Sentinel)) => ret = arg.text
    /\ calls = 2 => ret = prev

C26_Witness ==
    /\ calls = 2
    /\ startsWith(arg.first, Sentinel)
    /\ arg.rest = << <<>>, <<SP, "b", SP>>, <<>> >>
    /\ isWidget(ret, arg.first, <<"b">>)


====
